---- MODULE Spec2Model ----
(***************************************************************************)
(* Model of the QuickBooks Online ingestion service: the sync engine       *)
(* (apps/qbo_ingestion/sync_engine.py), the checkpoint / account / record  *)
(* tables (models.py), the token handling of the SDK (sdk/__init__.py,     *)
(* qbo_client.py) and the paginated, retrying query of the API client      *)
(* (sdk/apis/api_base.py, customers.py, invoices.py).                      *)
(*                                                                         *)
(* Conventions.  Python's None and the empty string are both falsy and the *)
(* code only ever tests a watermark by truthiness, so an absent watermark  *)
(* is the empty sequence <<>>; a timestamp string is a non-empty sequence  *)
(* of digits compared lexicographically, as Python compares str.  A token  *)
(* is a positive version number and 0 stands for None; an instant is a     *)
(* number of minutes and 0 stands for None.  An error message is the name  *)
(* of the exception class whose str() the code stores.                     *)
(***************************************************************************)
EXTENDS Integers, Sequences, FiniteSets, Bags, TLC

\* ------------------------------------------------------------------ bounds
MaxEvents == 5
PageSize == 2
IdpExpiresIn == 6
MaxRecords == 5
MaxInstant == 8
MaxCycles == 2
PollSeconds == 2
MaxUpserts == 3
OverlapEvents == 3

\* ------------------------------------------------------- program constants
SafetyMargin == 5
max_retries == 3
retry_delay == 1

Realms == {"r1", "r2"}
UnknownRealm == "rX"
Workers == {"w1", "w2"}

SYNC_CONFIG ==
  << [name |-> "customers", object_type |-> "Customer"],
     [name |-> "invoices", object_type |-> "Invoice"] >>

ObjectType == {"Customer", "Invoice"}
SyncStatus == {"pending", "in_progress", "success", "failed"}

\* ------------------------------------------------------------- watermarks
NoneStr == <<>>

RECURSIVE StrLess(_, _)
\* Python's a < b on str: lexicographic, a proper prefix is smaller.
StrLess(a, b) ==
  IF b = <<>> THEN FALSE
  ELSE IF a = <<>> THEN TRUE
  ELSE IF Head(a) < Head(b) THEN TRUE
  ELSE IF Head(a) > Head(b) THEN FALSE
  ELSE StrLess(Tail(a), Tail(b))

StrLeq(a, b) == a = b \/ StrLess(a, b)

\* an _update_checkpoint that keeps the first value it is given
_update_checkpoint_sticky(current, new_value) ==
  IF current = NoneStr THEN new_value ELSE current

\* SyncEngine._update_checkpoint
_update_checkpoint(current, new_value) ==
  IF new_value # NoneStr /\ (current = NoneStr \/ StrLess(current, new_value))
  THEN new_value
  ELSE current

\* ------------------------------------------------------------ remote data
\* A remote entity: its Id and its MetaData.LastUpdatedTime.  The remote
\* system answers a query in ascending update-time order.
RemoteChoices ==
  { <<>>,
    << [Id |-> 1, lut |-> <<1>>] >>,
    << [Id |-> 1, lut |-> <<1>>], [Id |-> 2, lut |-> <<1, 2>>],
       [Id |-> 3, lut |-> <<2>>] >> }

\* a WHERE clause that also selects the records at the watermark
QueryResult_inclusive(data, last_updated_time) ==
  IF last_updated_time # NoneStr
  THEN SelectSeq(data, LAMBDA e : StrLeq(last_updated_time, e.lut))
  ELSE data

\* Customers.get_all_generator / Invoices.get_all_generator: the WHERE clause
QueryResult(data, last_updated_time) ==
  IF last_updated_time # NoneStr
  THEN SelectSeq(data, LAMBDA e : StrLess(last_updated_time, e.lut))
  ELSE data

Min(a, b) == IF a < b THEN a ELSE b

\* The window STARTPOSITION start_position MAXRESULTS page_size of a result
PageOf(result, start_position, page_size) ==
  SubSeq(result, start_position,
         Min(start_position + page_size - 1, Len(result)))

\* ------------------------------------------------------------ HTTP retry
\* a _handle_response that reports 401 and 403 as server errors
Classify_auth_as_server(o) ==
  IF o = "200" THEN "ok"
  ELSE IF o = "401" \/ o = "403" THEN "ServerError"
  ELSE IF o = "404" THEN "NotFoundError"
  ELSE IF o = "400" THEN "ValidationError"
  ELSE IF o = "429" THEN "RateLimitError"
  ELSE IF o = "500" \/ o = "503" THEN "ServerError"
  ELSE IF o = "net" THEN "RequestException"
  ELSE "QBOSDKError"

\* One HTTP attempt's outcome: a status code, or "net" for a transport error.
Classify(o) ==
  IF o = "200" THEN "ok"
  ELSE IF o = "401" \/ o = "403" THEN "AuthenticationError"
  ELSE IF o = "404" THEN "NotFoundError"
  ELSE IF o = "400" THEN "ValidationError"
  ELSE IF o = "429" THEN "RateLimitError"
  ELSE IF o = "500" \/ o = "503" THEN "ServerError"
  ELSE IF o = "net" THEN "RequestException"
  ELSE "QBOSDKError"

\* a rate-limit backoff that shrinks from one attempt to the next
RateLimitDelay_shrinks(attempt) == retry_delay * (2 ^ (max_retries - attempt))

\* delay = self._retry_delay * (2 ** attempt)
RateLimitDelay(attempt) == retry_delay * (2 ^ attempt)

\* a retry loop that keeps the first exception it met
LastException_first(last_exception, k) ==
  IF last_exception # "none" THEN last_exception
  ELSE IF k = "RequestException" THEN "QBOSDKError" ELSE k

\* The assignments to last_exception of the three retrying except clauses
\* after an attempt that raised k: a new RateLimitError, the ServerError
\* itself, or a QBOSDKError that wraps the transport error
LastException(last_exception, k) ==
  IF k = "RequestException" THEN "QBOSDKError" ELSE k

\* a linear backoff that counts the attempts from zero
LinearDelay_from_zero(attempt) == retry_delay * attempt

\* delay = self._retry_delay * (attempt + 1)
LinearDelay(attempt) == retry_delay * (attempt + 1)

RECURSIVE RetryLoop(_, _, _, _)
\* ApiBase._request_with_retry: the for loop from `attempt` on, over the
\* outcomes the remote gives to the successive attempts.  The result is the
\* value returned or the exception raised, with the delays slept.
RetryLoop(outcomes, attempt, last_exception, sleeps) ==
  IF attempt >= max_retries \/ attempt >= Len(outcomes)
  THEN [result |-> IF last_exception = "none" THEN "QBOSDKError"
                   ELSE last_exception,
        attempts |-> attempt, sleeps |-> sleeps]
  ELSE LET k == Classify(outcomes[attempt + 1]) IN
       IF k = "ok"
       THEN [result |-> "ok", attempts |-> attempt + 1, sleeps |-> sleeps]
       ELSE IF k = "RateLimitError"
       THEN RetryLoop(outcomes, attempt + 1, LastException(last_exception, k),
                      Append(sleeps, RateLimitDelay(attempt)))
       ELSE IF k = "ServerError"
       THEN RetryLoop(outcomes, attempt + 1, LastException(last_exception, k),
                      IF attempt < max_retries - 1
                      THEN Append(sleeps, LinearDelay(attempt))
                      ELSE sleeps)
       ELSE IF k = "RequestException"
       THEN RetryLoop(outcomes, attempt + 1, LastException(last_exception, k),
                      IF attempt < max_retries - 1
                      THEN Append(sleeps, LinearDelay(attempt))
                      ELSE sleeps)
       ELSE [result |-> k, attempts |-> attempt + 1, sleeps |-> sleeps]

_request_with_retry(outcomes) == RetryLoop(outcomes, 0, "none", <<>>)

\* The remote's answers to the attempts of one page request, as the sync
\* cycle meets them: each script is as long as the retry ceiling allows.
HttpScripts ==
  { <<"200">>, <<"429", "200">>, <<"429", "429", "429">>, <<"401">> }

\* ---------------------------------------------------------------- tables
\* SyncState row; `exists` is FALSE while the row has not been created.
NoSyncState ==
  [exists |-> FALSE, status |-> "pending", checkpoint |-> NoneStr,
   consecutive_failures |-> 0, error_message |-> "none",
   last_attempt_time |-> 0, last_successful_sync_time |-> 0]

PendingSyncState == [NoSyncState EXCEPT !.exists = TRUE]

\* Model.save(update_fields=fields): only the named columns of the row in the
\* database take the values of the in-memory object.
SaveFields(dbrow, obj, fields) ==
  [f \in DOMAIN dbrow |-> IF f \in fields THEN obj[f] ELSE dbrow[f]]

\* SyncState.mark_started, mark_success and mark_failed change the in-memory
\* object `self` and save some of its columns over the stored row `row`;
\* each gives the object and the row afterwards.
\* a mark_started that stamps the attempt and leaves the status as it was
mark_started_keeps_status(row, self, utcnow) ==
  LET obj == [self EXCEPT !.last_attempt_time = utcnow,
                          !.error_message = "none"]
  IN [self |-> obj,
      row |-> SaveFields(row, obj, {"last_attempt_time", "error_message"})]

mark_started(row, self, utcnow) ==
  LET obj == [self EXCEPT !.status = "in_progress",
                          !.last_attempt_time = utcnow,
                          !.error_message = "none"]
  IN [self |-> obj,
      row |-> SaveFields(row, obj,
                {"status", "last_attempt_time", "error_message"})]

\* a mark_success that leaves the failure counter and the error as they were
mark_success_keeps_failures(row, self, checkpoint, utcnow) ==
  LET obj == [self EXCEPT !.status = "success",
                          !.last_successful_sync_time = utcnow,
                          !.checkpoint = IF checkpoint # NoneStr
                                         THEN checkpoint ELSE @]
  IN [self |-> obj,
      row |-> SaveFields(row, obj,
                {"status", "last_successful_sync_time", "checkpoint"})]

mark_success(row, self, checkpoint, utcnow) ==
  LET obj == [self EXCEPT !.status = "success",
                          !.last_successful_sync_time = utcnow,
                          !.consecutive_failures = 0,
                          !.error_message = "none",
                          !.checkpoint = IF checkpoint # NoneStr
                                         THEN checkpoint ELSE @]
  IN [self |-> obj,
      row |-> SaveFields(row, obj,
                {"status", "last_successful_sync_time",
                 "consecutive_failures", "error_message", "checkpoint"})]

\* a mark_failed that also forgets the checkpoint, to force a full re-sync
mark_failed_clears(row, self, error_message) ==
  LET obj == [self EXCEPT !.status = "failed",
                          !.error_message = error_message,
                          !.consecutive_failures = @ + 1,
                          !.checkpoint = NoneStr]
  IN [self |-> obj,
      row |-> SaveFields(row, obj,
                {"status", "error_message", "consecutive_failures",
                 "checkpoint"})]

mark_failed(row, self, error_message) ==
  LET obj == [self EXCEPT !.status = "failed",
                          !.error_message = error_message,
                          !.consecutive_failures = @ + 1]
  IN [self |-> obj,
      row |-> SaveFields(row, obj,
                {"status", "error_message", "consecutive_failures"})]

\* QBOAccount row
NoAccount ==
  [exists |-> FALSE, access_token |-> 0, refresh_token |-> 0,
   access_token_expires_at |-> 0, is_token_expired |-> FALSE]

\* an upsert that never looks the key up: a plain create
upsert_creates(table, object_type, account, entity) ==
  table (+) SetToBag({[object_type |-> object_type, account |-> account,
                       qbo_id |-> entity.Id, raw_data |-> entity.lut]})

\* an upsert that leaves a row it finds as it is
upsert_keeps_first(table, object_type, account, entity) ==
  IF \E r \in BagToSet(table) :
       r.object_type = object_type /\ r.account = account
       /\ r.qbo_id = entity.Id
  THEN table
  ELSE table (+) SetToBag({[object_type |-> object_type,
                            account |-> account, qbo_id |-> entity.Id,
                            raw_data |-> entity.lut]})

\* an upsert that looks the row up by qbo_id alone, in any account
upsert_any_account(table, object_type, account, entity) ==
  LET row == [object_type |-> object_type, account |-> account,
              qbo_id |-> entity.Id, raw_data |-> entity.lut]
      found == {r \in BagToSet(table) :
                  r.object_type = object_type /\ r.qbo_id = entity.Id}
  IN IF found = {}
     THEN table (+) SetToBag({row})
     ELSE LET old == CHOOSE r \in found : TRUE
          IN (table (-) SetToBag({old})) (+) SetToBag({row})

\* Customer.upsert / Invoice.upsert: update_or_create on (account, qbo_id) in
\* the table of the object type.  A row is [object_type, account, qbo_id,
\* raw_data]; raw_data keeps the payload's LastUpdatedTime.
upsert(table, object_type, account, entity) ==
  LET row == [object_type |-> object_type, account |-> account,
              qbo_id |-> entity.Id, raw_data |-> entity.lut]
      found == {r \in BagToSet(table) :
                  r.object_type = object_type /\ r.account = account
                  /\ r.qbo_id = entity.Id}
  IN IF found = {}
     THEN table (+) SetToBag({row})
     ELSE LET old == CHOOSE r \in found : TRUE
          IN (table (-) SetToBag({old})) (+) SetToBag({row})

\* an atomic block whose writes never reach the table
UpsertAll_skips(table, object_type, account, batch) == table

RECURSIVE UpsertAll(_, _, _, _)
\* the body of `with transaction.atomic()` over one batch
UpsertAll(table, object_type, account, batch) ==
  IF batch = <<>> THEN table
  ELSE UpsertAll(upsert(table, object_type, account, Head(batch)),
                 object_type, account, Tail(batch))

\* an atomic block that keeps the writes made before the exception
AtomicBlock_autocommit(table, object_type, account, batch, failed_at) ==
  IF failed_at = 0 THEN UpsertAll(table, object_type, account, batch)
  ELSE UpsertAll(table, object_type, account,
                 SubSeq(batch, 1, failed_at - 1))

\* `with transaction.atomic()` around the upserts of one batch: the table
\* after the block when no upsert raised (failed_at = 0), or when the upsert
\* of record number failed_at raised and the block was rolled back
AtomicBlock(table, object_type, account, batch, failed_at) ==
  IF failed_at = 0 THEN UpsertAll(table, object_type, account, batch)
  ELSE table

RECURSIVE BatchMax(_, _)
\* the running max_checkpoint over one batch
BatchMax(max_checkpoint, batch) ==
  IF batch = <<>> THEN max_checkpoint
  ELSE BatchMax(_update_checkpoint(max_checkpoint, Head(batch).lut),
                Tail(batch))

\* an ensure_token_valid without the safety margin
NeedsRefresh_nomargin(access_token, token_expires_at, utcnow) ==
  IF access_token = 0 THEN TRUE
  ELSE IF token_expires_at # 0
       THEN utcnow >= token_expires_at
       ELSE FALSE

\* QuickBooksOnlineSDK.ensure_token_valid: is a refresh exchange made?
NeedsRefresh(access_token, token_expires_at, utcnow) ==
  IF access_token = 0 THEN TRUE
  ELSE IF token_expires_at # 0
       THEN utcnow >= token_expires_at - SafetyMargin
       ELSE FALSE

\* What the token endpoint may answer to a refresh exchange: the status and
\* the kind of body: the token triple, a JSON object whose error is
\* invalid_grant, a JSON object with another error, a body that is not JSON,
\* or JSON that is not an object (null, an array, a string)
TokenResponses ==
  {[status |-> "200", body |-> "tokens"]}
  \cup {[status |-> s, body |-> b] :
          s \in {"400", "401", "500"},
          b \in {"invalid_grant", "error", "text", "array"}}

\* QuickBooksOnlineSDK._refresh_tokens: the exception raised, the credential
\* held afterwards, the calls of the persistence callback and the number of
\* exchanges made.  On a non-200, response.json() raises ValueError for a
\* body that is not JSON, which is caught; .get on JSON that is not an
\* object raises AttributeError, which is not.
_refresh_tokens(client, response, utcnow) ==
  IF response.status # "200"
  THEN [raised |-> IF response.body = "text" THEN "AuthenticationError"
                   ELSE IF response.body = "array" THEN "AttributeError"
                   ELSE IF response.body = "invalid_grant"
                   THEN "InvalidGrantError"
                   ELSE "AuthenticationError",
        client |-> client, callbacks |-> <<>>, exchanges |-> 1]
  ELSE LET new == [access_token |-> client.refresh_token + 1,
                   refresh_token |-> client.refresh_token + 1,
                   token_expires_at |-> utcnow + IdpExpiresIn]
       IN [raised |-> "none", client |-> new, callbacks |-> <<new>>,
           exchanges |-> 1]

\* a get_active_accounts that returns every account that has a refresh token
RECURSIVE ActiveFrom_with_revoked(_, _)
ActiveFrom_with_revoked(accts, order) ==
  IF order = <<>> THEN <<>>
  ELSE LET a == accts[Head(order)] IN
       IF a.exists /\ a.refresh_token # 0
       THEN <<Head(order)>> \o ActiveFrom_with_revoked(accts, Tail(order))
       ELSE ActiveFrom_with_revoked(accts, Tail(order))

\* QBOAccount.get_active_accounts, in primary-key order
RECURSIVE ActiveFrom(_, _)
ActiveFrom(accts, order) ==
  IF order = <<>> THEN <<>>
  ELSE LET a == accts[Head(order)] IN
       IF a.exists /\ ~a.is_token_expired /\ a.refresh_token # 0
       THEN <<Head(order)>> \o ActiveFrom(accts, Tail(order))
       ELSE ActiveFrom(accts, Tail(order))

\* ----------------------------------------------------------------- state
VARIABLES
  accounts,     \* table qbo_accounts: realm_id -> QBOAccount row
  sync_states,  \* table sync_states: realm_id -> object_type -> SyncState row
  records,      \* tables customers and invoices: a bag of rows
  idp,          \* identity provider: per realm the refresh token it accepts
  remote,       \* the remote entities of every (realm, object type)
  now,          \* the clock, in minutes
  proc,         \* per worker process: position and local variables
  nevents,      \* number of events the environment has caused so far: calls
                \* of an entry point, authorizations, clock ticks and faults
  failed_partial, \* history: the cycles that ended, failed or killed, with
                \* batch 1 of 2 committed, and the watermark they started from
  call,         \* a single call of an SDK operation made outside a sync
                \* cycle: the operation, its arguments and what it gave
  shutdown_requested, \* qbo_run_sync: the module's global stop flag
  service       \* qbo_run_sync: position and locals of Command.handle

vars ==
  <<accounts, sync_states, records, idp, remote, now, proc, nevents,
    failed_partial, call, shutdown_requested, service>>

PendingResult == [status |-> "pending", count |-> 0, error |-> "none"]

NoResults == [n \in {"customers", "invoices"} |-> PendingResult]

NoClient == [access_token |-> 0, refresh_token |-> 0, token_expires_at |-> 0]

NoReturn == [raised |-> "none", results |-> <<>>]

\* A worker that runs no entry point
IdleProc ==
  [pc |-> "idle", entry |-> "none", realm |-> "none", queue |-> <<>>,
   selected |-> <<>>, results |-> <<>>, ret |-> NoReturn,
   client |-> NoClient, idx |-> 0, acct_results |-> NoResults,
   sync_state |-> NoSyncState, last_sync_time |-> NoneStr,
   max_checkpoint |-> NoneStr, total_processed |-> 0, start_position |-> 0,
   batch |-> <<>>, exc |-> "none",
   \* history, read by no step: the object types begun and the API calls
   \* issued in the current sync_account call, the checkpoint rows of the
   \* account when the call began, the object type whose sync met an
   \* invalid grant, and whether an API call was ever issued while the
   \* account's stored revoked flag was set; the accounts for which the
   \* process was killed between a refresh exchange and its callback; the
   \* remote data as they were when the call began
   attempted |-> {}, api |-> {}, snap |-> [t \in ObjectType |-> NoSyncState],
   grant_failed |-> "none", api_while_revoked |-> FALSE,
   refresh_killed |-> {}, remote_seen |-> <<>>]

\* No SDK operation is called on its own
NoCall == [op |-> "none", args |-> <<>>, done |-> FALSE, out |-> <<>>]

\* The qbo_run_sync command is not running
NoService ==
  [pc |-> "none", fleet |-> 0, todo |-> 0, results |-> <<>>, cycles |-> 0,
   wake |-> 0, signalled_at |-> "none", started_after_signal |-> 0]

Init ==
  /\ call = NoCall
  /\ shutdown_requested = FALSE
  /\ service = NoService
  /\ accounts = [r \in Realms |-> NoAccount]
  /\ sync_states = [r \in Realms |-> [t \in ObjectType |-> NoSyncState]]
  /\ records = EmptyBag
  /\ idp = [r \in Realms |-> [valid |-> 0, issued |-> 0]]
  /\ remote \in RemoteChoices
  /\ now = 1
  /\ proc = [w \in Workers |-> IdleProc]
  /\ nevents = 0
  /\ failed_partial = {}

\* In Spec one worker runs: the sync operations are sequential.
SeqWorkers == {"w1"}

Quiescent == \A w \in Workers : proc[w].pc \in {"idle", "done"}

\* ------------------------------------------------- control flow (no I/O)
\* What sync_all_accounts appends for an account whose sync_account raised
RaisedRecord(realm, e) ==
  IF e = "RevokedRefreshTokenError"
  THEN [realm_id |-> realm, success |-> FALSE,
        error |-> "Re-authorization required",
        customers |-> [PendingResult EXCEPT !.status = "skipped"],
        invoices |-> [PendingResult EXCEPT !.status = "skipped"]]
  ELSE [realm_id |-> realm, success |-> FALSE, error |-> e,
        customers |-> [PendingResult EXCEPT !.status = "failed"],
        invoices |-> [PendingResult EXCEPT !.status = "failed"]]

\* a sync_account whose success flag asks for one successful object type
ReturnedRecord_any(realm, res) ==
  [realm_id |-> realm,
   success |-> \E i \in 1..Len(SYNC_CONFIG) :
                  res[SYNC_CONFIG[i].name].status = "success",
   error |-> "none", customers |-> res["customers"],
   invoices |-> res["invoices"]]

\* What sync_account returns
ReturnedRecord(realm, res) ==
  [realm_id |-> realm,
   success |-> \A i \in 1..Len(SYNC_CONFIG) :
                  res[SYNC_CONFIG[i].name].status = "success",
   error |-> "none", customers |-> res["customers"],
   invoices |-> res["invoices"]]

\* sync_all_accounts: the for loop takes the next account, or returns
NextAccount(p) ==
  IF p.queue = <<>>
  THEN [p EXCEPT !.pc = "done",
                 !.ret = [raised |-> "none", results |-> p.results]]
  ELSE [p EXCEPT !.pc = "acct_start", !.realm = Head(p.queue),
                 !.queue = Tail(p.queue)]

\* sync_account returns its results to its caller
AccountReturns(p) ==
  LET rec == ReturnedRecord(p.realm, p.acct_results) IN
  IF p.entry = "one"
  THEN [p EXCEPT !.pc = "done",
                 !.ret = [raised |-> "none", results |-> <<rec>>]]
  ELSE NextAccount([p EXCEPT !.results = Append(@, rec)])

\* a sync_all_accounts without its except clauses
AccountRaises_propagates(p, e) ==
  [p EXCEPT !.pc = "done", !.ret = [raised |-> e, results |-> <<>>]]

\* sync_account raises e to its caller
AccountRaises(p, e) ==
  IF p.entry = "one"
  THEN [p EXCEPT !.pc = "done", !.ret = [raised |-> e, results |-> <<>>]]
  ELSE NextAccount([p EXCEPT !.results = Append(@, RaisedRecord(p.realm, e))])

\* a sync_account that leaves its loop at the first failed object type
TypeReturns_stops(p, r) ==
  LET q == [p EXCEPT !.acct_results[SYNC_CONFIG[p.idx].name] = r,
                     !.exc = "none", !.batch = <<>>,
                     !.sync_state = NoSyncState, !.last_sync_time = NoneStr,
                     !.max_checkpoint = NoneStr, !.total_processed = 0,
                     !.start_position = 0]
  IN IF p.idx < Len(SYNC_CONFIG) /\ r.status = "success"
     THEN [q EXCEPT !.idx = p.idx + 1, !.pc = "ensure"]
     ELSE AccountReturns(q)

\* _sync_object_type returns r for the current object type: sync_account
\* stores it and goes on to the next entry of SYNC_CONFIG
TypeReturns(p, r) ==
  LET q == [p EXCEPT !.acct_results[SYNC_CONFIG[p.idx].name] = r,
                     \* the locals of the sync method go out of scope
                     !.exc = "none", !.batch = <<>>,
                     !.sync_state = NoSyncState, !.last_sync_time = NoneStr,
                     !.max_checkpoint = NoneStr, !.total_processed = 0,
                     !.start_position = 0]
  IN IF p.idx < Len(SYNC_CONFIG)
     THEN [q EXCEPT !.idx = p.idx + 1, !.pc = "ensure"]
     ELSE AccountReturns(q)

FailedResult(e) == [status |-> "failed", count |-> 0, error |-> e]

\* ------------------------------------------------------------ environment
\* an authorization that creates the SyncState rows anew every time
Authorize_resets(realm) ==
  /\ Quiescent
  /\ nevents < MaxEvents
  /\ nevents' = nevents + 1
  /\ LET tok == idp[realm].issued + 1 IN
     /\ idp' = [idp EXCEPT ![realm] = [valid |-> tok, issued |-> tok]]
     /\ accounts' = [accounts EXCEPT ![realm] =
          [exists |-> TRUE, access_token |-> tok, refresh_token |-> tok,
           access_token_expires_at |-> now + IdpExpiresIn,
           is_token_expired |-> FALSE]]
     /\ sync_states' = [sync_states EXCEPT ![realm] =
                          [t \in ObjectType |-> PendingSyncState]]
  /\ UNCHANGED <<records, remote, call, now, proc, failed_partial,
                 shutdown_requested, service>>

\* AuthorizeView.post: the code exchange succeeds and create_or_update stores
\* the credential; a new account gets one pending SyncState per object type.
Authorize(realm) ==
  /\ Quiescent
  /\ nevents < MaxEvents
  /\ nevents' = nevents + 1
  /\ LET tok == idp[realm].issued + 1 IN
     /\ idp' = [idp EXCEPT ![realm] = [valid |-> tok, issued |-> tok]]
     /\ accounts' = [accounts EXCEPT ![realm] =
          [exists |-> TRUE, access_token |-> tok, refresh_token |-> tok,
           access_token_expires_at |-> now + IdpExpiresIn,
           is_token_expired |-> FALSE]]
     /\ sync_states' =
          IF accounts[realm].exists THEN sync_states
          ELSE [sync_states EXCEPT ![realm] =
                  [t \in ObjectType |-> PendingSyncState]]
  /\ UNCHANGED <<records, remote, call, now, proc, failed_partial,
                 shutdown_requested, service>>

\* The identity provider stops accepting the realm's refresh token.
IdpRevoke(realm) ==
  /\ idp[realm].valid # 0
  /\ nevents < MaxEvents
  /\ nevents' = nevents + 1
  /\ idp' = [idp EXCEPT ![realm].valid = 0]
  /\ UNCHANGED <<accounts, sync_states, records, remote, call,
                 now, proc, failed_partial,
                 shutdown_requested, service>>

\* Time passes.  The clock is read by ensure_token_valid and by the stamps of
\* the checkpoint row, so it is advanced between calls and between the
\* object types of a call.
Tick ==
  /\ nevents < MaxEvents
  /\ nevents' = nevents + 1
  /\ \A w \in Workers : proc[w].pc \in {"idle", "done", "ensure"}
  /\ now' = now + 1
  /\ UNCHANGED <<accounts, sync_states, records, idp,
                 remote, call, proc, failed_partial,
                 shutdown_requested, service>>

\* ------------------------------------------------------------ sync engine
CurName(p) == SYNC_CONFIG[p.idx].name
CurType(p) == SYNC_CONFIG[p.idx].object_type

Known(realm) == realm \in Realms /\ accounts[realm].exists

Revoked(realm) == Known(realm) /\ accounts[realm].is_token_expired

\* History of an API call issued by worker p for its account
Called(p, kind) ==
  [p EXCEPT !.api = @ \cup {<<CurName(p), kind>>},
            !.api_while_revoked = @ \/ Revoked(p.realm)]

\* SyncTriggerView.post with a realm_id: sync_account(realm_id) is called
SyncAccountCall(w, realm) ==
  /\ proc[w].pc \in {"idle", "done"}
  /\ nevents < MaxEvents
  /\ nevents' = nevents + 1
  /\ proc' = [proc EXCEPT ![w] =
       [IdleProc EXCEPT !.pc = "acct_start", !.entry = "one",
                        !.realm = realm,
                        !.api_while_revoked = proc[w].api_while_revoked,
                        !.refresh_killed = proc[w].refresh_killed]]
  /\ UNCHANGED <<accounts, sync_states, records, idp,
                 remote, call, now, failed_partial,
                 shutdown_requested, service>>

\* sync_all_accounts, up to the first iteration of its loop
sync_all_accounts(w) ==
  /\ proc[w].pc \in {"idle", "done"}
  /\ nevents < MaxEvents
  /\ nevents' = nevents + 1
  /\ LET active == ActiveFrom(accounts, <<"r1", "r2">>) IN
     proc' = [proc EXCEPT ![w] =
       NextAccount([IdleProc EXCEPT !.entry = "all", !.queue = active,
                      !.selected = active,
                      !.api_while_revoked = proc[w].api_while_revoked,
                      !.refresh_killed = proc[w].refresh_killed])]
  /\ UNCHANGED <<accounts, sync_states, records, idp,
                 remote, call, now, failed_partial,
                 shutdown_requested, service>>

\* sync_account, up to the loop over SYNC_CONFIG: the account is looked up,
\* a revoked account is refused, the client is built from the stored tokens
Entered(p, realm) ==
  [p EXCEPT !.acct_results = NoResults, !.idx = 0, !.client = NoClient,
            !.attempted = {}, !.api = {}, !.grant_failed = "none",
            !.remote_seen = remote,
            !.snap = IF Known(realm) THEN sync_states[realm]
                     ELSE [t \in ObjectType |-> NoSyncState]]

\* a sync_account that goes on with a revoked account
AccountStarts_nocheck(p, realm) ==
  IF ~Known(realm) THEN AccountRaises(Entered(p, realm), "AccountNotFoundError")
  ELSE [Entered(p, realm) EXCEPT
          !.pc = "ensure", !.idx = 1,
          !.client = [access_token |-> accounts[realm].access_token,
                      refresh_token |-> accounts[realm].refresh_token,
                      token_expires_at |->
                        accounts[realm].access_token_expires_at]]

\* a sync_account that returns its pending results for a revoked account
AccountStarts_returns(p, realm) ==
  IF ~Known(realm) THEN AccountRaises(Entered(p, realm), "AccountNotFoundError")
  ELSE IF accounts[realm].is_token_expired
  THEN AccountReturns(Entered(p, realm))
  ELSE AccountStarts_nocheck(p, realm)

AccountStarts(p, realm) ==
  IF ~Known(realm) THEN AccountRaises(Entered(p, realm), "AccountNotFoundError")
  ELSE IF accounts[realm].is_token_expired
  THEN AccountRaises(Entered(p, realm), "RevokedRefreshTokenError")
  ELSE [Entered(p, realm) EXCEPT
          !.pc = "ensure", !.idx = 1,
          !.client = [access_token |-> accounts[realm].access_token,
                      refresh_token |-> accounts[realm].refresh_token,
                      token_expires_at |->
                        accounts[realm].access_token_expires_at]]

sync_account(w) ==
  /\ proc[w].pc = "acct_start"
  /\ proc' = [proc EXCEPT ![w] = AccountStarts(proc[w], proc[w].realm)]
  /\ UNCHANGED <<accounts, sync_states, records, idp, remote, call,
                 now, nevents, failed_partial,
                 shutdown_requested, service>>

\* sync_customers / sync_invoices, first statement: ensure_token_valid().
\* It makes no exchange when the token held is fresh.
EnsureFresh(w) ==
  LET p == proc[w] IN
  /\ p.pc = "ensure"
  /\ ~NeedsRefresh(p.client.access_token, p.client.token_expires_at, now)
  /\ proc' = [proc EXCEPT ![w] =
       [p EXCEPT !.pc = "load_state", !.attempted = @ \cup {CurName(p)}]]
  /\ UNCHANGED <<accounts, sync_states, records, idp, remote, call,
                 now, nevents, failed_partial,
                 shutdown_requested, service>>

\* _refresh_tokens, the exchange answered 200: the provider rotates the
\* refresh token and the SDK holds the new triple; the callback is next.
RefreshOk(w) ==
  LET p == proc[w] IN
  /\ p.pc = "ensure"
  /\ NeedsRefresh(p.client.access_token, p.client.token_expires_at, now)
  /\ idp[p.realm].valid # 0
  /\ idp[p.realm].valid = p.client.refresh_token
  /\ LET tok == idp[p.realm].issued + 1 IN
     /\ idp' = [idp EXCEPT ![p.realm] = [valid |-> tok, issued |-> tok]]
     /\ proc' = [proc EXCEPT ![w] =
          [Called(p, "refresh") EXCEPT
             !.pc = "persist", !.attempted = @ \cup {CurName(p)},
             !.client = [access_token |-> tok, refresh_token |-> tok,
                         token_expires_at |-> now + IdpExpiresIn]]]
  /\ UNCHANGED <<accounts, sync_states, records, remote, call,
                 now, nevents, failed_partial,
                 shutdown_requested, service>>

\* _refresh_tokens, the exchange answered invalid_grant: InvalidGrantError
\* leaves the sync method (the call is outside its try) and reaches
\* _sync_object_type
RefreshInvalidGrant(w) ==
  LET p == proc[w] IN
  /\ p.pc = "ensure"
  /\ NeedsRefresh(p.client.access_token, p.client.token_expires_at, now)
  /\ ~(idp[p.realm].valid # 0 /\ idp[p.realm].valid = p.client.refresh_token)
  /\ proc' = [proc EXCEPT ![w] =
       [Called(p, "refresh") EXCEPT
          !.pc = "set_revoked", !.attempted = @ \cup {CurName(p)},
          !.exc = "InvalidGrantError", !.grant_failed = CurName(p)]]
  /\ UNCHANGED <<accounts, sync_states, records, idp, remote, call,
                 now, nevents, failed_partial,
                 shutdown_requested, service>>

\* a _sync_object_type that takes every failure of the refresh for a
\* revocation
TypeRaisesEarly_flags(p, e) == [p EXCEPT !.pc = "set_revoked", !.exc = e]

\* What _sync_object_type does with an exception e that left the sync method
\* before its try block: no checkpoint row is touched
TypeRaisesEarly(p, e) == TypeReturns(p, FailedResult(e))

\* _refresh_tokens, the exchange answered another non-200: the exception it
\* raises leaves the sync method and _sync_object_type reports the type failed
RefreshFails(w) ==
  LET p == proc[w] IN
  /\ p.pc = "ensure"
  /\ NeedsRefresh(p.client.access_token, p.client.token_expires_at, now)
  /\ \E response \in TokenResponses :
       LET r == _refresh_tokens(p.client, response, now) IN
       /\ r.raised \notin {"none", "InvalidGrantError"}
       /\ proc' = [proc EXCEPT ![w] =
            TypeRaisesEarly([Called(p, "refresh") EXCEPT
                               !.attempted = @ \cup {CurName(p)}],
                            r.raised)]
  /\ nevents < MaxEvents
  /\ nevents' = nevents + 1
  /\ UNCHANGED <<accounts, sync_states, records, idp,
                 remote, call, now, failed_partial,
                 shutdown_requested, service>>

\* a callback that stores the access token and its expiry only
on_token_refresh_access_only(w) ==
  LET p == proc[w] IN
  /\ p.pc = "persist"
  /\ accounts' = [accounts EXCEPT ![p.realm] =
       [@ EXCEPT !.access_token = p.client.access_token,
                 !.access_token_expires_at = p.client.token_expires_at,
                 !.is_token_expired = FALSE]]
  /\ proc' = [proc EXCEPT ![w].pc = "load_state"]
  /\ UNCHANGED <<sync_states, records, idp, remote, call,
                 now, nevents, failed_partial,
                 shutdown_requested, service>>

\* create_client_for_account.on_token_refresh
on_token_refresh(w) ==
  LET p == proc[w] IN
  /\ p.pc = "persist"
  /\ accounts' = [accounts EXCEPT ![p.realm] =
       [@ EXCEPT !.access_token = p.client.access_token,
                 !.refresh_token = p.client.refresh_token,
                 !.access_token_expires_at = p.client.token_expires_at,
                 !.is_token_expired = FALSE]]
  /\ proc' = [proc EXCEPT ![w].pc = "load_state"]
  /\ UNCHANGED <<sync_states, records, idp, remote, call,
                 now, nevents, failed_partial,
                 shutdown_requested, service>>

\* a _sync_object_type that handles InvalidGrantError as any other exception
SetRevoked_generic(w) ==
  LET p == proc[w] IN
  /\ p.pc = "set_revoked"
  /\ proc' = [proc EXCEPT ![w] = TypeReturns(p, FailedResult(p.exc))]
  /\ UNCHANGED <<accounts, sync_states, records, idp, remote, call, now,
                 nevents, failed_partial,
                 shutdown_requested, service>>

\* _sync_object_type, except InvalidGrantError: the flag is saved and
\* RevokedRefreshTokenError goes through sync_account to its caller
SetRevoked(w) ==
  LET p == proc[w] IN
  /\ p.pc = "set_revoked"
  /\ accounts' = [accounts EXCEPT ![p.realm].is_token_expired = TRUE]
  /\ proc' = [proc EXCEPT ![w] =
       AccountRaises([p EXCEPT !.exc = "none"], "RevokedRefreshTokenError")]
  /\ UNCHANGED <<sync_states, records, idp, remote, call,
                 now, nevents, failed_partial,
                 shutdown_requested, service>>

\* The rows stored for an (account, object type)
Stored(realm, object_type) ==
  {r \in BagToSet(records) :
     r.object_type = object_type /\ r.account = realm}

\* Batch 1 of the remote's two batches is stored and batch 2 is not.
PartialCommit(realm, object_type) ==
  /\ Len(remote) > PageSize
  /\ {r.qbo_id : r \in Stored(realm, object_type)}
       = {remote[i].Id : i \in 1..PageSize}

\* History entry of a cycle of worker p that ends in such a state
EndedPartial(p) ==
  IF PartialCommit(p.realm, CurType(p))
  THEN {[realm |-> p.realm, object_type |-> CurType(p),
         before |-> p.last_sync_time]}
  ELSE {}

\* a get_or_create that starts an interrupted row afresh
Loaded_discards_interrupted(row) ==
  IF row.exists /\ row.status # "in_progress" THEN row ELSE PendingSyncState

\* The row get_or_create returns
Loaded(row) == IF row.exists THEN row ELSE PendingSyncState

\* sync_customers / sync_invoices: get_or_create, read of the checkpoint,
\* mark_started
LoadState(w) ==
  LET p == proc[w]
      loaded == Loaded(sync_states[p.realm][CurType(p)])
      m == mark_started(loaded, loaded, now)
  IN
  /\ p.pc = "load_state"
  /\ sync_states' = [sync_states EXCEPT ![p.realm][CurType(p)] = m.row]
  /\ proc' = [proc EXCEPT ![w] =
       [p EXCEPT !.pc = "fetch", !.sync_state = m.self,
                 !.last_sync_time = loaded.checkpoint,
                 !.max_checkpoint = loaded.checkpoint,
                 !.total_processed = 0, !.start_position = 1]]
  /\ UNCHANGED <<accounts, records, idp, remote, call, now, nevents,
                 failed_partial,
                 shutdown_requested, service>>

\* _query_generator, one turn of its loop: the page request and what the
\* generator does with the answer
FetchPage(w, script) ==
  LET p == proc[w]
      r == IF p.client.access_token = 0
           THEN [result |-> "AuthenticationError"]
           ELSE _request_with_retry(script)
      entities == PageOf(QueryResult(remote, p.last_sync_time),
                         p.start_position, PageSize)
  IN
  /\ p.pc = "fetch"
  /\ r.result # "ok" => nevents < MaxEvents
  /\ nevents' = IF r.result # "ok" THEN nevents + 1 ELSE nevents
  /\ proc' = [proc EXCEPT ![w] =
       IF r.result # "ok"
       THEN [Called(p, "query") EXCEPT !.pc = "mark_failed",
                                       !.exc = r.result]
       ELSE IF entities = <<>>
       THEN [Called(p, "query") EXCEPT !.pc = "mark_success"]
       ELSE [Called(p, "query") EXCEPT !.pc = "upsert",
                                       !.batch = entities]]
  /\ UNCHANGED <<accounts, sync_states, records, idp,
                 remote, call, now, failed_partial,
                 shutdown_requested, service>>

\* a batch commit that also saves the running maximum as the checkpoint
UpsertBatch_saves(w) ==
  LET p == proc[w] IN
  /\ p.pc = "upsert"
  /\ records' = UpsertAll(records, CurType(p), p.realm, p.batch)
  /\ sync_states' = [sync_states EXCEPT ![p.realm][CurType(p)].checkpoint =
       BatchMax(p.max_checkpoint, p.batch)]
  /\ proc' = [proc EXCEPT ![w] =
       [p EXCEPT !.max_checkpoint = BatchMax(@, p.batch),
                 !.sync_state.checkpoint = BatchMax(p.max_checkpoint, p.batch),
                 !.total_processed = @ + Len(p.batch),
                 !.batch = <<>>,
                 !.pc = IF Len(p.batch) < PageSize THEN "mark_success"
                        ELSE "fetch",
                 !.start_position = IF Len(p.batch) < PageSize THEN @
                                    ELSE @ + PageSize]]
  /\ UNCHANGED <<accounts, idp, remote, call, now, nevents, failed_partial,
                 shutdown_requested, service>>

\* the atomic block over one batch commits; the generator is resumed
UpsertBatch(w) ==
  LET p == proc[w] IN
  /\ p.pc = "upsert"
  /\ records' = AtomicBlock(records, CurType(p), p.realm, p.batch, 0)
  /\ proc' = [proc EXCEPT ![w] =
       [p EXCEPT !.max_checkpoint = BatchMax(@, p.batch),
                 !.total_processed = @ + Len(p.batch),
                 !.batch = <<>>,
                 !.pc = IF Len(p.batch) < PageSize THEN "mark_success"
                        ELSE "fetch",
                 !.start_position = IF Len(p.batch) < PageSize THEN @
                                    ELSE @ + PageSize]]
  /\ UNCHANGED <<accounts, sync_states, idp, remote, call,
                 now, nevents, failed_partial,
                 shutdown_requested, service>>

\* an upsert of the batch raises: the atomic block rolls the batch back
UpsertFails(w) ==
  LET p == proc[w] IN
  /\ p.pc = "upsert"
  /\ \E failed_at \in 1..Len(p.batch) :
       records' = AtomicBlock(records, CurType(p), p.realm, p.batch, failed_at)
  /\ proc' = [proc EXCEPT ![w] =
       [p EXCEPT !.pc = "mark_failed", !.exc = "DatabaseError"]]
  /\ nevents < MaxEvents
  /\ nevents' = nevents + 1
  /\ UNCHANGED <<accounts, sync_states, idp, remote, call, now, failed_partial,
                 shutdown_requested, service>>

\* sync_customers / sync_invoices: mark_success(max_checkpoint) and return
MarkSuccess(w) ==
  LET p == proc[w]
      m == mark_success(sync_states[p.realm][CurType(p)], p.sync_state,
                        p.max_checkpoint, now)
  IN
  /\ p.pc = "mark_success"
  /\ sync_states' = [sync_states EXCEPT ![p.realm][CurType(p)] = m.row]
  /\ proc' = [proc EXCEPT ![w] =
       TypeReturns(p, [status |-> "success", count |-> p.total_processed,
                       error |-> "none"])]
  /\ UNCHANGED <<accounts, records, idp, remote, call, now, nevents,
                 failed_partial,
                 shutdown_requested, service>>

\* sync_customers / sync_invoices, except Exception: mark_failed and re-raise;
\* _sync_object_type reports the type failed
MarkFailed(w) ==
  LET p == proc[w]
      m == mark_failed(sync_states[p.realm][CurType(p)], p.sync_state,
                       p.exc)
  IN
  /\ p.pc = "mark_failed"
  /\ sync_states' = [sync_states EXCEPT ![p.realm][CurType(p)] = m.row]
  /\ proc' = [proc EXCEPT ![w] = TypeReturns(p, FailedResult(p.exc))]
  /\ failed_partial' = failed_partial \cup EndedPartial(p)
  /\ UNCHANGED <<accounts, records, idp, remote, call, now, nevents,
                 shutdown_requested, service>>

\* The process is killed in the middle of a call: its memory is lost, the
\* database keeps what was committed.
Crash(w) ==
  /\ proc[w].pc \notin {"idle", "done"}
  /\ proc' = [proc EXCEPT ![w] =
       [IdleProc EXCEPT
          !.api_while_revoked = proc[w].api_while_revoked,
          !.refresh_killed =
             IF proc[w].pc = "persist"
             THEN proc[w].refresh_killed \cup {proc[w].realm}
             ELSE proc[w].refresh_killed]]
  /\ nevents < MaxEvents
  /\ nevents' = nevents + 1
  /\ failed_partial' =
       IF proc[w].pc \in {"fetch", "upsert", "mark_failed"}
       THEN failed_partial \cup EndedPartial(proc[w])
       ELSE failed_partial
  /\ UNCHANGED <<accounts, sync_states, records, idp, remote, call, now,
                 shutdown_requested, service>>

Step(w) ==
  \/ \E realm \in Realms \cup {UnknownRealm} : SyncAccountCall(w, realm)
  \/ sync_all_accounts(w)
  \/ sync_account(w)
  \/ EnsureFresh(w)
  \/ RefreshOk(w)
  \/ RefreshInvalidGrant(w)
  \/ RefreshFails(w)
  \/ on_token_refresh(w)
  \/ SetRevoked(w)
  \/ LoadState(w)
  \/ \E script \in HttpScripts : FetchPage(w, script)
  \/ UpsertBatch(w)
  \/ UpsertFails(w)
  \/ MarkSuccess(w)
  \/ MarkFailed(w)
  \/ Crash(w)

Next ==
  \/ \E realm \in Realms : Authorize(realm)
  \/ \E realm \in Realms : IdpRevoke(realm)
  \/ Tick
  \/ \E w \in SeqWorkers : Step(w)

Spec == Init /\ [][Next]_vars

\* ------------------------------------------------- first backfill, 3 pages
\* n remote entities in ascending update-time order
RemoteOfSize(n) == [i \in 1..n |-> [Id |-> i, lut |-> <<i>>]]

\* A remote result that arrives as two full pages and a shorter third one
BackfillRemote == RemoteOfSize(2 * PageSize + 1)

InitBackfill ==
  /\ call = NoCall
  /\ shutdown_requested = FALSE
  /\ service = NoService
  /\ accounts = [r \in Realms |-> NoAccount]
  /\ sync_states = [r \in Realms |-> [t \in ObjectType |-> NoSyncState]]
  /\ records = EmptyBag
  /\ idp = [r \in Realms |-> [valid |-> 0, issued |-> 0]]
  /\ remote = BackfillRemote
  /\ now = 1
  /\ proc = [w \in Workers |-> IdleProc]
  /\ nevents = 0
  /\ failed_partial = {}

SpecBackfill == InitBackfill /\ [][Next]_vars

\* ------------------------------------------- SDK operations on their own
\* What the remote may answer to one HTTP attempt
Outcomes == {"200", "400", "401", "403", "404", "418", "429", "500", "503",
             "net"}

\* The answers to the attempts of one call, one per attempt the loop allows
OutcomeScripts == [1..max_retries -> Outcomes]

\* a generator that goes on after a short page, until a page is empty
RECURSIVE GeneratorLoop_greedy(_, _, _, _, _)
GeneratorLoop_greedy(result, page_size, start_position, asked, batches) ==
  LET entities == PageOf(result, start_position, page_size) IN
  IF entities = <<>>
  THEN [requests |-> Len(asked) + 1,
        positions |-> Append(asked, start_position), batches |-> batches]
  ELSE GeneratorLoop_greedy(result, page_size, start_position + page_size,
                            Append(asked, start_position),
                            Append(batches, entities))

RECURSIVE GeneratorLoop(_, _, _, _, _)
\* ApiBase._query_generator, the while loop from start_position on, every
\* page request answered: the number of requests issued, the STARTPOSITION
\* of each and the batches yielded
GeneratorLoop(result, page_size, start_position, asked, batches) ==
  LET entities == PageOf(result, start_position, page_size) IN
  IF entities = <<>>
  THEN [requests |-> Len(asked) + 1,
        positions |-> Append(asked, start_position), batches |-> batches]
  ELSE IF Len(entities) < page_size
  THEN [requests |-> Len(asked) + 1,
        positions |-> Append(asked, start_position),
        batches |-> Append(batches, entities)]
  ELSE GeneratorLoop(result, page_size, start_position + page_size,
                     Append(asked, start_position),
                     Append(batches, entities))

_query_generator(result, page_size) ==
  GeneratorLoop(result, page_size, 1, <<>>, <<>>)

\* a get_all_generator that always asks for everything
get_all_generator_unfiltered(data, last_updated_time, page_size) ==
  _query_generator(data, page_size)

\* Customers.get_all_generator / Invoices.get_all_generator over the remote
\* records of the type in ascending update-time order: the WHERE clause is
\* added when a watermark is given
get_all_generator(data, last_updated_time, page_size) ==
  _query_generator(QueryResult(data, last_updated_time), page_size)

\* QuickBooksOnlineSDK.ensure_token_valid on a client whose exchange, when
\* one is made, is answered 200 with rotated tokens
ensure_token_valid(client, utcnow) ==
  IF NeedsRefresh(client.access_token, client.token_expires_at, utcnow)
  THEN [exchanged |-> TRUE,
        client |-> [access_token |-> client.refresh_token + 1,
                    refresh_token |-> client.refresh_token + 1,
                    token_expires_at |-> utcnow + IdpExpiresIn]]
  ELSE [exchanged |-> FALSE, client |-> client]

\* Upserts one after the other on a table, in the order given
RECURSIVE UpsertEach(_, _, _)
UpsertEach(table, object_type, ops) ==
  IF ops = <<>> THEN table
  ELSE UpsertEach(upsert(table, object_type, Head(ops).account,
                         Head(ops).entity),
                  object_type, Tail(ops))

\* One upsert: the account, the external id and the payload
UpsertOps ==
  {[account |-> a, entity |-> [Id |-> i, lut |-> <<v>>]] :
     a \in Realms, i \in 1..2, v \in 1..2}

\* Sequences of one to MaxUpserts upserts
UpsertSeqs ==
  UNION {[1..n -> UpsertOps] : n \in 1..MaxUpserts}

\* Watermarks a cycle may be seeded with: none, or a timestamp
Watermarks == {NoneStr, <<1>>, <<1, 2>>, <<2>>, <<3>>}

NewCall(op, args) == [op |-> op, args |-> args, done |-> FALSE, out |-> <<>>]

SdkCalls ==
  {NewCall("_request_with_retry", o) : o \in OutcomeScripts}
  \cup {NewCall("_query_generator", [result |-> RemoteOfSize(n),
                                     page_size |-> ps]) :
          n \in 0..MaxRecords, ps \in 1..PageSize}
  \cup {NewCall("ensure_token_valid",
                [client |-> [access_token |-> a, refresh_token |-> 1,
                             token_expires_at |-> e],
                 utcnow |-> n]) :
          a \in 0..1, e \in 0..MaxInstant, n \in 1..MaxInstant}
  \cup {NewCall("_refresh_tokens",
                [client |-> [access_token |-> a, refresh_token |-> 1,
                             token_expires_at |-> e],
                 response |-> r, utcnow |-> n]) :
          a \in 0..1, e \in {0, IdpExpiresIn}, r \in TokenResponses,
          n \in 1..MaxInstant}
  \cup {NewCall("get_all_generator",
                [data |-> d, last_updated_time |-> l, page_size |-> ps]) :
          d \in RemoteChoices \cup {RemoteOfSize(n) : n \in 0..MaxRecords},
          l \in Watermarks, ps \in 1..PageSize}
  \cup {NewCall("upsert", [object_type |-> t, ops |-> ops]) :
          t \in ObjectType, ops \in UpsertSeqs}

InitSdk ==
  /\ call \in SdkCalls
  /\ shutdown_requested = FALSE
  /\ service = NoService
  /\ accounts = [r \in Realms |-> NoAccount]
  /\ sync_states = [r \in Realms |-> [t \in ObjectType |-> NoSyncState]]
  /\ records = EmptyBag
  /\ idp = [r \in Realms |-> [valid |-> 0, issued |-> 0]]
  /\ remote = <<>>
  /\ now = 1
  /\ proc = [w \in Workers |-> IdleProc]
  /\ nevents = 0
  /\ failed_partial = {}

\* One call of ApiBase._request_with_retry
HttpCall ==
  /\ call.op = "_request_with_retry"
  /\ ~call.done
  /\ call' = [call EXCEPT !.done = TRUE,
                          !.out = _request_with_retry(call.args)]
  /\ UNCHANGED <<accounts, sync_states, records, idp, remote, now, proc,
                 nevents, failed_partial,
                 shutdown_requested, service>>

\* One full iteration of ApiBase._query_generator
GeneratorCall ==
  /\ call.op = "_query_generator"
  /\ ~call.done
  /\ call' = [call EXCEPT !.done = TRUE,
                          !.out = _query_generator(call.args.result,
                                                   call.args.page_size)]
  /\ UNCHANGED <<accounts, sync_states, records, idp, remote, now, proc,
                 nevents, failed_partial,
                 shutdown_requested, service>>

\* One call of QuickBooksOnlineSDK.ensure_token_valid
EnsureCall ==
  /\ call.op = "ensure_token_valid"
  /\ ~call.done
  /\ call' = [call EXCEPT !.done = TRUE,
                          !.out = ensure_token_valid(call.args.client,
                                                     call.args.utcnow)]
  /\ UNCHANGED <<accounts, sync_states, records, idp, remote, now, proc,
                 nevents, failed_partial,
                 shutdown_requested, service>>

\* One refresh exchange of QuickBooksOnlineSDK._refresh_tokens
RefreshCall ==
  /\ call.op = "_refresh_tokens"
  /\ ~call.done
  /\ call' = [call EXCEPT !.done = TRUE,
                          !.out = _refresh_tokens(call.args.client,
                                                  call.args.response,
                                                  call.args.utcnow)]
  /\ UNCHANGED <<accounts, sync_states, records, idp, remote, now, proc,
                 nevents, failed_partial,
                 shutdown_requested, service>>

\* Upserts of one object type applied to its empty table
UpsertCall ==
  /\ call.op = "upsert"
  /\ ~call.done
  /\ call' = [call EXCEPT !.done = TRUE,
                          !.out = UpsertEach(EmptyBag,
                                             call.args.object_type,
                                             call.args.ops)]
  /\ UNCHANGED <<accounts, sync_states, records, idp, remote, now, proc,
                 nevents, failed_partial, shutdown_requested, service>>

\* One full iteration of get_all_generator
GetAllCall ==
  /\ call.op = "get_all_generator"
  /\ ~call.done
  /\ call' = [call EXCEPT !.done = TRUE,
                          !.out = get_all_generator(
                                    call.args.data,
                                    call.args.last_updated_time,
                                    call.args.page_size)]
  /\ UNCHANGED <<accounts, sync_states, records, idp, remote, now, proc,
                 nevents, failed_partial, shutdown_requested, service>>

NextSdk ==
  \/ HttpCall
  \/ GeneratorCall
  \/ EnsureCall
  \/ RefreshCall
  \/ UpsertCall
  \/ GetAllCall

SpecSdk == InitSdk /\ [][NextSdk]_vars

\* ------------------------------------------------ two overlapping sync runs
\* Two processes (the run loop and the HTTP trigger) call sync_account for
\* one account at overlapping times while the remote system takes new
\* records.  The account is authorized at the start, with an access token
\* that is either fresh or due for a refresh; OverlapEvents events (calls
\* and remote changes) can still happen.
OverlapRealm == "r1"

InitOverlap ==
  /\ call = NoCall
  /\ shutdown_requested = FALSE
  /\ service = NoService
  /\ \E due \in BOOLEAN :
       accounts = [r \in Realms |->
         IF r = OverlapRealm
         THEN [exists |-> TRUE, access_token |-> 1, refresh_token |-> 1,
               access_token_expires_at |->
                 IF due THEN 1 + SafetyMargin ELSE 1 + IdpExpiresIn,
               is_token_expired |-> FALSE]
         ELSE NoAccount]
  /\ sync_states = [r \in Realms |->
       IF r = OverlapRealm THEN [t \in ObjectType |-> PendingSyncState]
       ELSE [t \in ObjectType |-> NoSyncState]]
  /\ records = EmptyBag
  /\ idp = [r \in Realms |->
       IF r = OverlapRealm THEN [valid |-> 1, issued |-> 1]
       ELSE [valid |-> 0, issued |-> 0]]
  /\ remote = RemoteOfSize(1)
  /\ now = 1
  /\ proc = [w \in Workers |-> IdleProc]
  /\ nevents = MaxEvents - OverlapEvents
  /\ failed_partial = {}

\* The remote system takes a new record, newer than all it has
RemoteGrows ==
  /\ nevents < MaxEvents
  /\ nevents' = nevents + 1
  /\ Len(remote) < MaxRecords
  /\ remote' = RemoteOfSize(Len(remote) + 1)
  /\ UNCHANGED <<accounts, sync_states, records, idp, call, now, proc,
                 failed_partial, shutdown_requested, service>>

\* The steps of a sync_account call no request of which fails
StepOverlap(w) ==
  \/ SyncAccountCall(w, OverlapRealm)
  \/ sync_account(w)
  \/ EnsureFresh(w)
  \/ RefreshOk(w)
  \/ RefreshInvalidGrant(w)
  \/ on_token_refresh(w)
  \/ SetRevoked(w)
  \/ LoadState(w)
  \/ FetchPage(w, <<"200">>)
  \/ UpsertBatch(w)
  \/ MarkSuccess(w)

NextOverlap ==
  \/ \E w \in Workers : StepOverlap(w)
  \/ RemoteGrows

SpecOverlap == InitOverlap /\ [][NextOverlap]_vars

\* ------------------------------------------------ a remote that changes
\* One process syncs one authorized account, no request failing, while the
\* remote system changes its records between the steps.  The remote starts
\* with one record more than a page holds.
InitChurn ==
  /\ call = NoCall
  /\ shutdown_requested = FALSE
  /\ service = NoService
  /\ accounts = [r \in Realms |->
       IF r = OverlapRealm
       THEN [exists |-> TRUE, access_token |-> 1, refresh_token |-> 1,
             access_token_expires_at |-> MaxInstant + SafetyMargin + 1,
             is_token_expired |-> FALSE]
       ELSE NoAccount]
  /\ sync_states = [r \in Realms |->
       IF r = OverlapRealm THEN [t \in ObjectType |-> PendingSyncState]
       ELSE [t \in ObjectType |-> NoSyncState]]
  /\ records = EmptyBag
  /\ idp = [r \in Realms |->
       IF r = OverlapRealm THEN [valid |-> 1, issued |-> 1]
       ELSE [valid |-> 0, issued |-> 0]]
  /\ remote = RemoteOfSize(PageSize + 1)
  /\ now = 1
  /\ proc = [w \in Workers |-> IdleProc]
  /\ nevents = MaxEvents - OverlapEvents
  /\ failed_partial = {}

\* The remote data without the record at position i
Without(seq, i) == SubSeq(seq, 1, i - 1) \o SubSeq(seq, i + 1, Len(seq))

\* The update-time that follows the latest one of the remote
NextLut == <<Head(remote[Len(remote)].lut) + 1>>

\* A remote record is updated: it takes an update-time newer than all and
\* is from now on the last in ascending update-time order
RemoteUpdates ==
  /\ nevents < MaxEvents
  /\ nevents' = nevents + 1
  /\ \E i \in 1..Len(remote) :
       remote' = Append(Without(remote, i),
                        [Id |-> remote[i].Id, lut |-> NextLut])
  /\ UNCHANGED <<accounts, sync_states, records, idp, call, now, proc,
                 failed_partial, shutdown_requested, service>>

\* A remote record is created with the update-time of the latest one (the
\* remote stamps to the second)
RemoteTies ==
  /\ nevents < MaxEvents
  /\ nevents' = nevents + 1
  /\ Len(remote) < MaxRecords
  /\ remote' = Append(remote, [Id |-> Len(remote) + 1,
                               lut |-> remote[Len(remote)].lut])
  /\ UNCHANGED <<accounts, sync_states, records, idp, call, now, proc,
                 failed_partial, shutdown_requested, service>>

\* The steps of a sync_account call that needs no refresh and no request of
\* which fails
StepChurn(w) ==
  \/ SyncAccountCall(w, OverlapRealm)
  \/ sync_account(w)
  \/ EnsureFresh(w)
  \/ LoadState(w)
  \/ FetchPage(w, <<"200">>)
  \/ UpsertBatch(w)
  \/ MarkSuccess(w)

NextChurn == (\E w \in SeqWorkers : StepChurn(w)) \/ RemoteUpdates

SpecChurn == InitChurn /\ [][NextChurn]_vars

NextTies == (\E w \in SeqWorkers : StepChurn(w)) \/ RemoteTies

SpecTies == InitChurn /\ [][NextTies]_vars

\* ----------------------------------------------- the continuous sync service
\* manage.py qbo_run_sync without --once.  A cycle is one call of
\* sync_all_accounts, taken here by what it does for each active account:
\* it appends one outcome and goes on, whatever sync_account did.
AccountOutcomes == {"synced", "skipped", "failed"}

EngineIdle ==
  UNCHANGED <<accounts, sync_states, records, idp, remote, now, proc,
              nevents, failed_partial, call>>

InitService ==
  /\ call = NoCall
  /\ shutdown_requested = FALSE
  /\ \E n \in 0..Cardinality(Realms) :
       service = [NoService EXCEPT !.pc = "head", !.fleet = n]
  /\ accounts = [r \in Realms |-> NoAccount]
  /\ sync_states = [r \in Realms |-> [t \in ObjectType |-> NoSyncState]]
  /\ records = EmptyBag
  /\ idp = [r \in Realms |-> [valid |-> 0, issued |-> 0]]
  /\ remote = <<>>
  /\ now = 1
  /\ proc = [w \in Workers |-> IdleProc]
  /\ nevents = 0
  /\ failed_partial = {}

\* signal_handler, run by the interpreter between two instructions of the
\* main thread on SIGINT or SIGTERM: it sets the flag and returns, so the
\* interrupted code goes on.  signalled_at is history: where it struck.
signal_handler ==
  /\ service.pc \notin {"none", "exited"}
  /\ ~shutdown_requested
  /\ shutdown_requested' = TRUE
  /\ service' = [service EXCEPT !.signalled_at = service.pc]
  /\ EngineIdle

\* a loop head that does not read the flag
LoopHead_ignores_flag ==
  /\ service.pc = "head"
  /\ service.cycles < MaxCycles
  /\ service' = [service EXCEPT !.pc = "run_cycle"]
  /\ UNCHANGED shutdown_requested
  /\ EngineIdle

\* Command.handle, line 63: while not shutdown_requested
LoopHead ==
  /\ service.pc = "head"
  /\ shutdown_requested \/ service.cycles < MaxCycles
  /\ service' = [service EXCEPT
                   !.pc = IF shutdown_requested THEN "exited"
                          ELSE "run_cycle"]
  /\ UNCHANGED shutdown_requested
  /\ EngineIdle

\* line 65: _run_cycle is entered and calls sync_all_accounts, which selects
\* the active accounts.  started_after_signal is history.
StartCycle ==
  /\ service.pc = "run_cycle"
  /\ service' = [service EXCEPT
                   !.pc = "in_cycle", !.todo = service.fleet,
                   !.results = <<>>, !.cycles = @ + 1,
                   !.started_after_signal =
                      IF shutdown_requested THEN @ + 1 ELSE @]
  /\ UNCHANGED shutdown_requested
  /\ EngineIdle

\* sync_all_accounts, one turn of its loop over the accounts
AccountDone ==
  /\ service.pc = "in_cycle"
  /\ service.todo > 0
  /\ \E o \in AccountOutcomes :
       service' = [service EXCEPT !.todo = @ - 1,
                                  !.results = Append(@, o)]
  /\ UNCHANGED shutdown_requested
  /\ EngineIdle

\* sync_all_accounts returns and _run_cycle prints its summary
CycleReturns ==
  /\ service.pc = "in_cycle"
  /\ service.todo = 0
  /\ service' = [service EXCEPT !.pc = "after_cycle"]
  /\ UNCHANGED shutdown_requested
  /\ EngineIdle

\* An exception leaves _run_cycle: the query for the active accounts or the
\* writing of the summary failed (the loop over the accounts lets none out)
CycleRaises ==
  /\ service.pc = "in_cycle"
  /\ service.todo = service.fleet \/ service.todo = 0
  /\ service' = [service EXCEPT !.pc = "error"]
  /\ UNCHANGED shutdown_requested
  /\ EngineIdle

\* lines 67-71: the flag is read after the cycle; the next sync is scheduled
AfterCycle ==
  /\ service.pc = "after_cycle"
  /\ service' = [service EXCEPT
                   !.pc = IF shutdown_requested THEN "exited" ELSE "sleep",
                   !.wake = PollSeconds]
  /\ UNCHANGED shutdown_requested
  /\ EngineIdle

\* lines 73-74: while not shutdown_requested and time.time() < next_sync:
\* time.sleep(1)
Sleep ==
  /\ service.pc = "sleep"
  /\ service' = IF ~shutdown_requested /\ service.wake > 0
                THEN [service EXCEPT !.wake = @ - 1]
                ELSE [service EXCEPT !.pc = "head"]
  /\ UNCHANGED shutdown_requested
  /\ EngineIdle

\* lines 78-80: except Exception, the flag is read
HandleError ==
  /\ service.pc = "error"
  /\ service' = [service EXCEPT
                   !.pc = IF shutdown_requested THEN "head"
                          ELSE "error_sleep"]
  /\ UNCHANGED shutdown_requested
  /\ EngineIdle

\* line 81: time.sleep(60), which a signal does not cut short
ErrorSleep ==
  /\ service.pc = "error_sleep"
  /\ service' = [service EXCEPT !.pc = "head"]
  /\ UNCHANGED shutdown_requested
  /\ EngineIdle

\* The steps of the main thread of the command
RunLoop ==
  \/ LoopHead
  \/ StartCycle
  \/ AccountDone
  \/ CycleReturns
  \/ CycleRaises
  \/ AfterCycle
  \/ Sleep
  \/ HandleError
  \/ ErrorSleep

NextService == signal_handler \/ RunLoop

\* The main thread is the only thread of the process: while it has a step
\* to take it takes one.  (The cap MaxCycles stops it at the loop head.)
SpecService == InitService /\ [][NextService]_vars /\ WF_vars(RunLoop)

\* ---------------------------------------------------------------- claims
\* The worker is inside one object type's sync of a sync_account call
InCall(p) ==
  p.pc \in {"ensure", "persist", "set_revoked", "load_state", "fetch",
            "upsert", "mark_success", "mark_failed"}

\* Every remote entity is stored exactly once for the (account, object type),
\* with its payload, and nothing else is stored for it
ExactlyOnce(realm, object_type) ==
  /\ \A r \in Stored(realm, object_type) : CopiesIn(r, records) = 1
  /\ {[Id |-> r.qbo_id, lut |-> r.raw_data] :
        r \in Stored(realm, object_type)}
       = {remote[i] : i \in 1..Len(remote)}
  /\ Cardinality(Stored(realm, object_type)) = Len(remote)

\* C1: across every step of every sequence of cycles (successful, failed or
\* killed), the stored watermark of each (account, object type) never
\* decreases in string order.
C1_WatermarkNeverDecreases ==
  [][\A r \in Realms, t \in ObjectType :
       StrLeq(sync_states[r][t].checkpoint, sync_states'[r][t].checkpoint)]_vars

\* a cycle failed after an earlier one had advanced the watermark
C1_Witness ==
  \E r \in Realms, t \in ObjectType :
    /\ sync_states[r][t].checkpoint # NoneStr
    /\ sync_states[r][t].status = "failed"
    /\ sync_states[r][t].consecutive_failures > 0

\* The step in which an exception leaves the sync method of worker w's
\* current object type, and that exception
TypeRaises(w) ==
  /\ proc[w].pc \in {"ensure", "mark_failed"}
  /\ \/ proc'[w].pc = "set_revoked"
     \/ /\ proc'[w].pc # "idle"
        /\ proc'[w].acct_results[CurName(proc[w])].status = "failed"

Raised(w) ==
  IF proc'[w].pc = "set_revoked" THEN "InvalidGrantError"
  ELSE proc'[w].acct_results[CurName(proc[w])].error

\* C2: whenever an exception leaves token validation, page fetching or batch
\* upserting of an object type's sync, the checkpoint row of that (account,
\* object type) ends failed, with the error recorded and the failure counter
\* one higher.
C2_MarkFailedOnEveryException ==
  [][\A w \in Workers :
       TypeRaises(w) =>
         LET before == sync_states[proc[w].realm][CurType(proc[w])]
             after == sync_states'[proc[w].realm][CurType(proc[w])]
         IN /\ after.status = "failed"
            /\ after.error_message = Raised(w)
            /\ after.consecutive_failures
                 = before.consecutive_failures + 1]_vars

\* C3: an object type's cycle that ended failed has left the watermark as it
\* was when the call began, the failure counter one higher, and the failure's
\* message stored.
C3_FailedCycleRow ==
  \A w \in Workers :
    LET p == proc[w] IN
    (InCall(p) \/ p.pc = "done") =>
      \A i \in 1..Len(SYNC_CONFIG) :
        LET res == p.acct_results[SYNC_CONFIG[i].name]
            t == SYNC_CONFIG[i].object_type
        IN res.status = "failed" =>
             /\ sync_states[p.realm][t].checkpoint = p.snap[t].checkpoint
             /\ sync_states[p.realm][t].consecutive_failures
                  = p.snap[t].consecutive_failures + 1
             /\ sync_states[p.realm][t].error_message = res.error

\* A cycle is about to request its first page while batch 1 of 2 is stored
\* and batch 2 is not: an earlier cycle stopped between the two batches
SeedsAfterPartial(p) ==
  /\ p.pc = "fetch"
  /\ p.start_position = 1
  /\ PartialCommit(p.realm, CurType(p))

C5_BothBatchesExactlyOnce ==
  \A h \in failed_partial :
    sync_states[h.realm][h.object_type].status = "success" =>
      ExactlyOnce(h.realm, h.object_type)

C5_Witness ==
  \E h \in failed_partial :
    /\ sync_states[h.realm][h.object_type].status = "success"
    /\ Cardinality(Stored(h.realm, h.object_type)) > PageSize

\* sync_account(realm) has just raised RevokedRefreshTokenError to the caller
\* of worker p
RevokedRaised(p, realm) ==
  IF p.entry = "one"
  THEN /\ p.pc = "done"
       /\ p.realm = realm
       /\ p.ret = [raised |-> "RevokedRefreshTokenError", results |-> <<>>]
  ELSE /\ p.pc \in {"done", "acct_start"}
       /\ p.results # <<>>
       /\ p.results[Len(p.results)]
            = RaisedRecord(realm, "RevokedRefreshTokenError")

\* C6: when the sync of customers meets an invalid grant, the step that
\* handles it stores the revoked flag and raises the revoked error out of
\* sync_account, and in that call invoices was not attempted: no API call
\* was issued for it and its checkpoint row is as it was when the call began.
C6_InvalidGrantStopsAccount ==
  [][\A w \in Workers :
       ( /\ proc[w].pc = "set_revoked"
         /\ proc[w].grant_failed = "customers"
         /\ proc'[w].pc \notin {"set_revoked", "idle"} ) =>
         LET realm == proc[w].realm IN
         /\ accounts'[realm].is_token_expired
         /\ RevokedRaised(proc'[w], realm)
         /\ "invoices" \notin proc'[w].attempted
         /\ \A c \in proc'[w].api : c[1] # "invoices"
         /\ sync_states'[realm]["Invoice"] = proc[w].snap["Invoice"]]_vars

C6_Witness ==
  \E w \in Workers :
    /\ proc[w].grant_failed = "customers"
    /\ RevokedRaised(proc[w], proc[w].realm)
    /\ accounts[proc[w].realm].is_token_expired
    /\ proc[w].attempted = {"customers"}

\* The account whose sync_account call worker p has just left
AccountLeft(p) ==
  IF p.entry = "one" THEN p.realm ELSE p.results[Len(p.results)].realm_id

\* C7: a sync_account call that got past its checks and met no invalid grant
\* returns normally with every object type attempted and reported as success
\* or failed; an object type reported as success keeps its checkpoint row
\* and its records whatever happened to the other one.
C7_FailureDoesNotBlockOtherType ==
  \A w \in Workers :
    LET p == proc[w] IN
    ( /\ p.pc \in {"done", "acct_start"}
      /\ p.attempted # {}
      /\ p.grant_failed = "none" ) =>
      /\ p.ret.raised = "none"
      /\ p.attempted = {SYNC_CONFIG[i].name : i \in 1..Len(SYNC_CONFIG)}
      /\ p.entry = "one" =>
           p.ret.results = <<ReturnedRecord(p.realm, p.acct_results)>>
      /\ \A i \in 1..Len(SYNC_CONFIG) :
           LET res == p.acct_results[SYNC_CONFIG[i].name]
               t == SYNC_CONFIG[i].object_type
           IN /\ res.status \in {"success", "failed"}
              /\ res.status = "success" =>
                   /\ sync_states[AccountLeft(p)][t].status = "success"
                   /\ ExactlyOnce(AccountLeft(p), t)

C7_Witness ==
  \E w \in Workers :
    /\ proc[w].pc = "done"
    /\ proc[w].entry = "one"
    /\ proc[w].ret.raised = "none"
    /\ proc[w].acct_results["customers"].status = "failed"
    /\ proc[w].acct_results["customers"].error = "RateLimitError"
    /\ proc[w].acct_results["invoices"].status = "success"
    /\ proc[w].acct_results["invoices"].count > PageSize

\* C8: sync_all_accounts never raises; the outcome records are those of the
\* accounts selected when the loop began, one each, in iteration order, and
\* when it returns every selected account has its record.
C8_FleetLoopNeverAborts ==
  \A w \in Workers :
    LET p == proc[w] IN
    p.entry = "all" =>
      /\ p.ret.raised = "none"
      /\ Len(p.results) <= Len(p.selected)
      /\ \A i \in 1..Len(p.results) : p.results[i].realm_id = p.selected[i]
      /\ p.pc = "done" =>
           (Len(p.results) = Len(p.selected) /\ p.ret.results = p.results)

C8_Witness ==
  \E w \in Workers :
    /\ proc[w].pc = "done"
    /\ proc[w].entry = "all"
    /\ Len(proc[w].results) = 2
    /\ proc[w].results[1].error = "Re-authorization required"
    /\ proc[w].results[2].customers.status = "success"

\* C9: no refresh exchange and no API query is ever issued for an account
\* while its stored revoked flag is set, and a set flag is cleared only by a
\* new authorization of the account.
C9_NoCallWhileRevoked ==
  /\ [](\A w \in Workers : ~proc[w].api_while_revoked)
  /\ [][\A r \in Realms :
          (accounts[r].is_token_expired /\ ~accounts'[r].is_token_expired)
            => (proc' = proc /\ accounts'[r].refresh_token = idp'[r].issued
                /\ idp'[r].issued = idp[r].issued + 1)]_vars

\* a sync_account call for a revoked account was refused before any API call
C9_Witness ==
  \E w \in Workers :
    /\ proc[w].pc = "done"
    /\ proc[w].ret.raised = "RevokedRefreshTokenError"
    /\ proc[w].attempted = {}
    /\ proc[w].api = {}
    /\ accounts[proc[w].realm].is_token_expired

\* C10: the step of sync_account for an account whose revoked flag is set
\* raises the revoked error at once: no object type is begun, no API call is
\* issued, and the account, every checkpoint row and every record stay as
\* they were.
C10_RevokedAccountRefused ==
  [][\A w \in Workers :
       ( /\ proc[w].pc = "acct_start"
         /\ Revoked(proc[w].realm)
         /\ proc'[w].pc \notin {"acct_start", "idle"} ) =>
         /\ RevokedRaised(proc'[w], proc[w].realm)
         /\ proc'[w].attempted = {}
         /\ proc'[w].api = {}
         /\ UNCHANGED <<accounts, sync_states, records, idp,
                        shutdown_requested, service>>]_vars

C10_Witness ==
  \E w \in Workers :
    /\ proc[w].pc = "done"
    /\ proc[w].entry = "one"
    /\ proc[w].ret = [raised |-> "RevokedRefreshTokenError", results |-> <<>>]
    /\ proc[w].snap = sync_states[proc[w].realm]
    /\ proc[w].attempted = {}

\* The remote entity e is stored in table for the (account, object type) as
\* fetched
CommittedIn(table, realm, object_type, e) ==
  \E r \in BagToSet(table) :
    /\ r.object_type = object_type /\ r.account = realm
    /\ r.qbo_id = e.Id /\ r.raw_data = e.lut

Committed(realm, object_type, e) == CommittedIn(records, realm, object_type, e)

\* C11: in every reachable state, also after a cycle failed or was killed
\* between pages, every remote record whose update-time is not above the
\* stored watermark of an (account, object type) is already committed to the
\* local store: the watermark is never ahead of the committed data.
C11_WatermarkCoversCommitted ==
  \A r \in Realms, t \in ObjectType :
    \A i \in 1..Len(remote) :
      StrLeq(remote[i].lut, sync_states[r][t].checkpoint) =>
        Committed(r, t, remote[i])

\* after a cycle that stopped between the pages, a cycle over both pages has
\* written its watermark
C11_Witness ==
  \E r \in Realms, t \in ObjectType :
    /\ Len(remote) > PageSize
    /\ sync_states[r][t].checkpoint = remote[Len(remote)].lut
    /\ \A i \in 1..Len(remote) : Committed(r, t, remote[i])
    /\ \E h \in failed_partial : h.realm = r /\ h.object_type = t

\* The records of the pages that worker p's cycle was given before the
\* current one
EarlierBatches(p) ==
  SubSeq(QueryResult(remote, p.last_sync_time), 1, p.start_position - 1)

\* C12: each batch is one atomic unit, committed before the next page is
\* requested.  When an upsert of batch k raises, the store is exactly as it
\* was before the batch was begun and the records of batches 1..k-1 are
\* still committed; when the batch ends without an exception, its records
\* and those of the batches before it are committed at the moment the
\* generator is resumed for the next page.
C12_BatchIsAtomic ==
  [][\A w \in Workers :
       LET p == proc[w]
           earlier == EarlierBatches(p)
           kept == \A i \in 1..Len(earlier) :
                     CommittedIn(records', p.realm, CurType(p), earlier[i])
       IN p.pc = "upsert" =>
            /\ proc'[w].pc = "mark_failed" => (records' = records /\ kept)
            /\ proc'[w].pc \in {"fetch", "mark_success"} =>
                 /\ kept
                 /\ \A i \in 1..Len(p.batch) :
                      CommittedIn(records', p.realm, CurType(p),
                                  p.batch[i])]_vars

\* an upsert of batch 2 has raised while batch 1 is committed
C12_Witness ==
  \E w \in Workers :
    /\ proc[w].pc = "mark_failed"
    /\ proc[w].exc = "DatabaseError"
    /\ proc[w].start_position > 1
    /\ Len(EarlierBatches(proc[w])) = PageSize
    /\ PartialCommit(proc[w].realm, CurType(proc[w]))

\* The greatest update-time among the entities of data
MaxLut(data) ==
  LET luts == {data[i].lut : i \in 1..Len(data)}
  IN CHOOSE x \in luts : \A y \in luts : StrLeq(y, x)

\* The sizes of the pages in which a result of n records arrives are
\* [P, P, m] with 0 < m < P
ThreePages(n) == n > 2 * PageSize /\ n < 3 * PageSize

\* C13: a first backfill (no watermark) whose result arrives as pages of
\* sizes [P, P, m], 0 < m < P, ends with status success, with 2P + m
\* records processed and stored once each, and with the watermark equal to
\* the greatest update-time among them.
C13_FirstBackfillOfThreePages ==
  [][\A w \in Workers :
       LET p == proc[w] IN
       ( /\ p.pc = "mark_success"
         /\ p.last_sync_time = NoneStr
         /\ ThreePages(Len(remote))
         /\ proc'[w].pc \notin {"mark_success", "idle"} ) =>
         LET row == sync_states'[p.realm][CurType(p)]
             res == proc'[w].acct_results[CurName(p)]
         IN /\ row.status = "success"
            /\ row.checkpoint = MaxLut(remote)
            /\ res = [status |-> "success", count |-> Len(remote),
                      error |-> "none"]
            /\ p.total_processed = Len(remote)
            /\ Cardinality(Stored(p.realm, CurType(p))) = Len(remote)
            /\ ExactlyOnce(p.realm, CurType(p))]_vars

C13_Witness ==
  \E w \in Workers :
    /\ proc[w].pc = "done"
    /\ ThreePages(Len(remote))
    /\ proc[w].acct_results["customers"].status = "success"
    /\ proc[w].acct_results["customers"].count = Len(remote)
    /\ proc[w].snap["Customer"].checkpoint = NoneStr
    /\ sync_states[proc[w].realm]["Customer"].checkpoint = MaxLut(remote)

\* Worker p's cycle is incremental and no remote record has changed since
\* the watermark it started from
NothingChanged(p) ==
  /\ p.last_sync_time # NoneStr
  /\ \A i \in 1..Len(remote) : ~StrLess(p.last_sync_time, remote[i].lut)

\* C14: an incremental cycle that starts from an existing watermark and
\* finds no changed record is given no batch, and ends with the stored
\* watermark equal to the existing one, status success and a count of 0.
C14_NothingChangedCycle ==
  /\ [](\A w \in Workers :
          (proc[w].pc \in {"fetch", "upsert", "mark_success", "mark_failed"}
           /\ NothingChanged(proc[w])) =>
            /\ proc[w].pc # "upsert"
            /\ proc[w].total_processed = 0)
  /\ [][\A w \in Workers :
          LET p == proc[w] IN
          ( /\ p.pc = "mark_success"
            /\ NothingChanged(p)
            /\ proc'[w].pc \notin {"mark_success", "idle"} ) =>
            LET row == sync_states'[p.realm][CurType(p)] IN
            /\ row.checkpoint = p.last_sync_time
            /\ row.checkpoint = sync_states[p.realm][CurType(p)].checkpoint
            /\ row.status = "success"
            /\ proc'[w].acct_results[CurName(p)]
                 = [status |-> "success", count |-> 0, error |-> "none"]]_vars

C14_Witness ==
  \E w \in Workers :
    /\ proc[w].pc = "done"
    /\ proc[w].snap["Customer"].checkpoint # NoneStr
    /\ proc[w].acct_results["customers"]
         = [status |-> "success", count |-> 0, error |-> "none"]
    /\ sync_states[proc[w].realm]["Customer"].checkpoint
         = proc[w].snap["Customer"].checkpoint
    /\ sync_states[proc[w].realm]["Customer"].status = "success"

\* A call of the operation op has returned
Returned(op) == call.op = op /\ call.done

\* The first j attempts are answered 429 and the next one 200, within the
\* retry ceiling
RateLimitedThenOk(outcomes, j) ==
  /\ j + 1 <= Len(outcomes)
  /\ \A i \in 1..j : outcomes[i] = "429"
  /\ outcomes[j + 1] = "200"

\* C15: a call whose first attempts are answered by rate-limit responses and
\* whose next attempt, within the retry ceiling, succeeds returns the
\* successful result, and the delays it slept, one per rate-limit response,
\* never get shorter from one attempt to the next.
C15_RateLimitThenSuccess ==
  Returned("_request_with_retry") =>
    \A j \in 1..2 :
      RateLimitedThenOk(call.args, j) =>
        /\ call.out.result = "ok"
        /\ call.out.attempts = j + 1
        /\ Len(call.out.sleeps) = j
        /\ \A i \in 1..(j - 1) : call.out.sleeps[i] <= call.out.sleeps[i + 1]

C15_Witness ==
  /\ Returned("_request_with_retry")
  /\ RateLimitedThenOk(call.args, 2)
  /\ call.out.result = "ok"
  /\ call.out.sleeps = <<1, 2>>

RetryableOutcomes == {"429", "500", "503", "net"}

\* C16: only rate-limit, server-error and transport-error outcomes lead to
\* another attempt; a 401, 403, 404, 400 or unclassified status ends the
\* call with its error at the attempt that met it, so after one attempt
\* when it is the first answer; a 200 ends it with the result; and no call
\* makes more than 3 attempts: after 3 retryable failures it raises.
C16_OnlyRetryableOutcomesRetried ==
  Returned("_request_with_retry") =>
    LET n == call.out.attempts
        last == call.args[n]
    IN /\ n \in 1..3
       /\ \A i \in 1..(n - 1) : call.args[i] \in RetryableOutcomes
       /\ last = "200" => call.out.result = "ok"
       /\ last \in {"401", "403"} => call.out.result = "AuthenticationError"
       /\ last = "404" => call.out.result = "NotFoundError"
       /\ last = "400" => call.out.result = "ValidationError"
       /\ last = "418" => call.out.result = "QBOSDKError"
       /\ last \in RetryableOutcomes => (n = 3 /\ call.out.result # "ok")
       /\ call.args[1] \notin RetryableOutcomes => n = 1

C16_Witness ==
  /\ Returned("_request_with_retry")
  /\ call.args = <<"429", "401", "200">>
  /\ call.out.attempts = 2
  /\ call.out.result = "AuthenticationError"

\* The kind of error a retryable outcome stands for
KindOf(o) ==
  IF o = "429" THEN "RateLimitError"
  ELSE IF o \in {"500", "503"} THEN "ServerError"
  ELSE "QBOSDKError"

\* C17: a call all of whose attempts up to the retry ceiling met retryable
\* failures raises the error of its last attempt: a rate-limit error, a
\* server error or the error that wraps a transport error, according to the
\* final attempt only.
C17_ExhaustionSurfacesLastError ==
  Returned("_request_with_retry") =>
    ((\A i \in 1..3 : call.args[i] \in RetryableOutcomes) =>
       /\ call.out.attempts = 3
       /\ call.out.result = KindOf(call.args[3]))

C17_Witness ==
  /\ Returned("_request_with_retry")
  /\ call.args = <<"429", "net", "500">>
  /\ call.out.result = "ServerError"

RECURSIVE Concat(_)
Concat(batches) ==
  IF batches = <<>> THEN <<>> ELSE Head(batches) \o Concat(Tail(batches))

\* C18: over a result of N records with page size P the batch sequence ends
\* after exactly N \div P + 1 page requests; every batch it yields is
\* non-empty, only the last one may be shorter than P, and together the
\* batches are the result: the page that is short or empty is the last one
\* requested.
C18_GeneratorTerminates ==
  Returned("_query_generator") =>
    LET N == Len(call.args.result)
        P == call.args.page_size
        b == call.out.batches
    IN /\ call.out.requests = (N \div P) + 1
       /\ \A i \in 1..Len(b) : b[i] # <<>>
       /\ \A i \in 1..(Len(b) - 1) : Len(b[i]) = P
       /\ Len(b) \in {call.out.requests - 1, call.out.requests}
       /\ Concat(b) = call.args.result

\* two full pages, then a short one: three requests, three batches
C18_Witness ==
  /\ Returned("_query_generator")
  /\ call.args.page_size = 2
  /\ Len(call.args.result) = 5
  /\ call.out.requests = 3
  /\ Len(call.out.batches) = 3

\* C19: ensure_token_valid makes a refresh exchange exactly when no access
\* token is held, or an expiry is held and now >= expiry - 5 minutes; with
\* a token held and the expiry more than 5 minutes ahead it makes none and
\* leaves the credential as it was.
C19_RefreshIffNearExpiry ==
  Returned("ensure_token_valid") =>
    LET c == call.args.client
        utcnow == call.args.utcnow
    IN /\ call.out.exchanged <=>
            \/ c.access_token = 0
            \/ c.token_expires_at # 0 /\ utcnow >= c.token_expires_at - 5
       /\ (c.access_token # 0 /\ c.token_expires_at - utcnow > 5) =>
            (~call.out.exchanged /\ call.out.client = c)
       /\ call.out.exchanged => call.out.client.refresh_token # c.refresh_token

\* exactly five minutes before the expiry the exchange is made
C19_Witness ==
  /\ Returned("ensure_token_valid")
  /\ call.args.client.access_token # 0
  /\ call.args.client.token_expires_at = call.args.utcnow + 5
  /\ call.out.exchanged

\* A refresh exchange for the realm has been answered and its callback has
\* not run yet, or never will because the process was killed before it
RefreshInFlight(realm) ==
  \E w \in Workers :
    \/ proc[w].pc = "persist" /\ proc[w].realm = realm
    \/ realm \in proc[w].refresh_killed

C21_RefreshFailureIsClassified ==
  Returned("_refresh_tokens") =>
    LET a == call.args
        o == call.out
        invalid == a.response.status # "200"
                   /\ a.response.body = "invalid_grant"
    IN /\ o.exchanges = 1
       /\ a.response.status = "200" => o.raised = "none"
       /\ invalid => o.raised = "InvalidGrantError"
       /\ a.response.status # "200" /\ ~invalid
            => o.raised = "AuthenticationError"
       /\ o.raised # "none" => o.client = a.client /\ o.callbacks = <<>>
\* The status steps a checkpoint row may take
StatusSteps ==
  {<<"pending", "in_progress">>, <<"in_progress", "success">>,
   <<"in_progress", "failed">>, <<"success", "in_progress">>,
   <<"failed", "in_progress">>, <<"in_progress", "in_progress">>}

\* Worker w is in the cycle of the row (realm, object_type) and its
\* mark_started put that row in_progress
InCycleOf(w, realm, object_type) ==
  /\ proc[w].pc \in {"mark_success", "mark_failed"}
  /\ proc[w].realm = realm
  /\ CurType(proc[w]) = object_type
  /\ proc[w].sync_state.status = "in_progress"
  /\ sync_states[realm][object_type].status = "in_progress"
  /\ sync_states[realm][object_type].last_attempt_time
       = proc[w].sync_state.last_attempt_time

\* C22: every write of a checkpoint row takes its status along one of
\* pending -> in_progress, in_progress -> success, in_progress -> failed,
\* success -> in_progress, failed -> in_progress, in_progress -> in_progress
\* (the only other write creates the row as pending); the status never
\* returns to pending, and success or failed is written only by the cycle
\* whose mark_started put the row in_progress.
C22_StatusTransitions ==
  [][\A realm \in Realms, t \in ObjectType :
       LET a == sync_states[realm][t]
           b == sync_states'[realm][t]
       IN a # b =>
            /\ \/ <<a.status, b.status>> \in StatusSteps
               \/ ~a.exists /\ b = PendingSyncState
            /\ b.status = "pending" => a.status = "pending"
            /\ b.status \in {"success", "failed"}
                 => \E w \in Workers : InCycleOf(w, realm, t)]_vars

\* A cycle has re-entered in_progress from failed and then ended in success
C22_Witness ==
  \E w \in Workers :
    /\ proc[w].pc = "done"
    /\ proc[w].snap["Customer"].status = "failed"
    /\ proc[w].acct_results.customers.status = "success"
    /\ sync_states[proc[w].realm]["Customer"].status = "success"
\* The greatest string of a non-empty set, in lexicographic order
LexMax(S) == CHOOSE x \in S : \A y \in S : StrLeq(y, x)

\* The update-times of the records a cycle seeded with last_sync_time
\* ingests when it runs to the end; a record without one counts for nothing
IngestedTimes(last_sync_time) ==
  LET res == QueryResult(remote, last_sync_time)
  IN {res[i].lut : i \in 1..Len(res)} \ {NoneStr}

\* A record that carries no update-time
NoTimeRecord == [Id |-> 0, lut |-> NoneStr]

\* C23: when a cycle ends in success, the watermark written is the
\* lexicographic maximum of the watermark the cycle started from and the
\* update-times of all records it ingested (a record without update-time
\* changes nothing), the failure counter is 0 and the last error is cleared.
C23_SuccessWritesMaxWatermark ==
  [][\A w \in Workers :
       LET p == proc[w] IN
       ( /\ p.pc = "mark_success"
         /\ proc'[w].pc \notin {"mark_success", "idle"} ) =>
         LET row == sync_states'[p.realm][CurType(p)]
             before == sync_states[p.realm][CurType(p)]
             ingested == QueryResult(remote, p.last_sync_time)
             expected == LexMax({p.last_sync_time}
                                \cup IngestedTimes(p.last_sync_time))
         IN /\ p.total_processed = Len(ingested)
            /\ p.last_sync_time = before.checkpoint
            /\ row.status = "success"
            /\ row.checkpoint = expected
            /\ row.consecutive_failures = 0
            /\ row.error_message = "none"
            /\ BatchMax(p.last_sync_time,
                        <<NoTimeRecord>> \o ingested \o <<NoTimeRecord>>)
                 = expected]_vars

\* A cycle that followed a failed one has ended in success: it moved the
\* watermark and reset the counter the failed cycle had raised
C23_Witness ==
  \E w \in Workers :
    /\ proc[w].pc = "done"
    /\ proc[w].snap["Customer"].consecutive_failures > 0
    /\ proc[w].snap["Customer"].error_message # "none"
    /\ proc[w].acct_results.customers.status = "success"
    /\ proc[w].acct_results.customers.count > 0
    /\ sync_states[proc[w].realm]["Customer"].checkpoint = MaxLut(remote)
    /\ sync_states[proc[w].realm]["Customer"].consecutive_failures = 0
    /\ sync_states[proc[w].realm]["Customer"].error_message = "none"
\* The points of a cycle between mark_started and mark_success / mark_failed
MidCycle == {"fetch", "upsert", "mark_success", "mark_failed"}

\* C24: a process killed in the middle of a cycle leaves the checkpoint row
\* in_progress with the watermark the cycle started from; the next cycle of
\* that row is not held back by it: it puts the row in_progress again and
\* fetches from the watermark that is stored.
C24_InterruptedCycleResumes ==
  [][\A w \in Workers :
       LET p == proc[w] IN
       /\ (p.pc \in MidCycle /\ proc'[w].pc = "idle") =>
            LET row == sync_states[p.realm][CurType(p)] IN
            /\ sync_states' = sync_states
            /\ row.status = "in_progress"
            /\ row.checkpoint = p.last_sync_time
       /\ ( /\ p.pc = "load_state"
            /\ sync_states[p.realm][CurType(p)].status = "in_progress"
            /\ proc'[w].pc \notin {"load_state", "idle"} ) =>
            LET row == sync_states[p.realm][CurType(p)] IN
            /\ proc'[w].pc = "fetch"
            /\ sync_states'[p.realm][CurType(p)].status = "in_progress"
            /\ sync_states'[p.realm][CurType(p)].checkpoint = row.checkpoint
            /\ sync_states'[p.realm][CurType(p)].last_attempt_time = now
            /\ proc'[w].last_sync_time = row.checkpoint
            /\ proc'[w].start_position = 1]_vars

\* A cycle that found its row in_progress, left there by a killed process
\* after a first success, has itself ended in success
C24_Witness ==
  \E w \in Workers :
    /\ proc[w].pc = "done"
    /\ proc[w].snap["Customer"].status = "in_progress"
    /\ proc[w].snap["Customer"].checkpoint # NoneStr
    /\ proc[w].acct_results.customers.status = "success"
    /\ sync_states[proc[w].realm]["Customer"].status = "success"
\* The step in which a cycle starts
CycleStarts == service.pc = "run_cycle" /\ service'.pc = "in_cycle"

\* The loop leaves only from a test of the flag made between two cycles,
\* and a cycle that returned has appended an outcome for every account
BetweenCyclesOnly ==
  /\ [][service'.pc = "exited" =>
          /\ service.pc \in {"head", "after_cycle"}
          /\ shutdown_requested]_vars
  /\ [][service.pc = "in_cycle" =>
          service'.pc \in {"in_cycle", "after_cycle", "error"}]_vars
  /\ [](service.pc = "after_cycle" =>
          Len(service.results) = service.fleet /\ service.todo = 0)

\* Once the flag is set the loop exits
EventuallyExits == shutdown_requested ~> (service.pc = "exited")

\* C25 as stated: the stop flag is acted on only between cycles, a cycle
\* that started goes through all accounts before the loop exits, no cycle
\* starts once the flag is set, and once the flag is set the loop exits.
C25_NoCycleStartsAfterFlag ==
  /\ BetweenCyclesOnly
  /\ [][CycleStarts => ~shutdown_requested]_vars
  /\ EventuallyExits

\* C25, amended: the stop flag is acted on only between cycles, a cycle
\* that started goes through all accounts before the loop exits, a loop
\* head that reads the flag set starts no cycle, so that at most one cycle
\* starts once the flag is set (when the signal strikes between the loop
\* head and the start of the cycle), and once the flag is set the loop exits.
C25_StopOnlyBetweenCycles ==
  /\ BetweenCyclesOnly
  /\ [][(service.pc = "head" /\ shutdown_requested
          /\ service'.pc # service.pc) => service'.pc = "exited"]_vars
  /\ [](/\ service.started_after_signal <= 1
        /\ service.started_after_signal = 1
             => service.signalled_at = "run_cycle")
  /\ EventuallyExits

\* The signal struck in the middle of a cycle over two accounts; the cycle
\* went through both and the loop then left
C25_Witness ==
  /\ service.pc = "exited"
  /\ service.signalled_at = "in_cycle"
  /\ service.fleet = 2
  /\ Len(service.results) = 2
  /\ service.cycles = 1
\* The rows a table holds for an (account, external id)
RowsFor(table, account, qbo_id) ==
  {r \in BagToSet(table) : r.account = account /\ r.qbo_id = qbo_id}

\* The payload of the last upsert of ops for (account, external id)
LastPayload(ops, account, qbo_id) ==
  LET at == {i \in 1..Len(ops) : ops[i].account = account
                                  /\ ops[i].entity.Id = qbo_id}
      last == CHOOSE i \in at : \A j \in at : j <= i
  IN ops[last].entity.lut

\* C26: after any sequence of upserts the table holds at most one row per
\* (account, external id); an (account, external id) that was upserted,
\* once or several times, has exactly one row and it holds the fields of
\* the most recent upsert; the same external id under two accounts has one
\* row for each.
C26_UpsertIsIdempotent ==
  Returned("upsert") =>
    LET ops == call.args.ops
        keys == {<<ops[i].account, ops[i].entity.Id>> : i \in 1..Len(ops)}
    IN /\ \A a \in Realms, i \in 1..2 :
            /\ Cardinality(RowsFor(call.out, a, i)) <= 1
            /\ \A r \in RowsFor(call.out, a, i) : CopiesIn(r, call.out) = 1
            /\ <<a, i>> \notin keys => RowsFor(call.out, a, i) = {}
       /\ \A k \in keys :
            \E r \in RowsFor(call.out, k[1], k[2]) :
              /\ r.object_type = call.args.object_type
              /\ r.raw_data = LastPayload(ops, k[1], k[2])
       /\ BagCardinality(call.out) = Cardinality(keys)

\* The same external id was upserted twice under one account, with different
\* fields, and once under the other account: two rows
C26_Witness ==
  /\ Returned("upsert")
  /\ Len(call.args.ops) = 3
  /\ \A i \in 1..3 : call.args.ops[i].entity.Id = 1
  /\ call.args.ops[1].account = call.args.ops[2].account
  /\ call.args.ops[1].entity.lut # call.args.ops[2].entity.lut
  /\ call.args.ops[3].account # call.args.ops[1].account
  /\ BagCardinality(call.out) = 2
\* The elements of a sequence
Elems(seq) == {seq[i] : i \in 1..Len(seq)}

\* The step of worker w is the call of sync_all_accounts (the other steps
\* that count an event change the accounts, the identity provider or the
\* clock, or start sync_account)
FleetCallBy(w) ==
  /\ proc[w].pc \in {"idle", "done"}
  /\ proc'[w].entry = "all"
  /\ nevents' = nevents + 1
  /\ UNCHANGED <<accounts, idp, now>>

\* The accounts table with the refresh token of realm emptied
WithoutRefreshToken(realm) ==
  [accounts EXCEPT ![realm].refresh_token = 0]

\* C27: a call of sync_all_accounts selects no account whose revoked flag is
\* set and none whose refresh token is empty, and for an account it did not
\* select it calls no sync_account, issues no API call and appends no
\* outcome; a re-authorization clears the flag and the account is selected
\* again.
C27_RevokedAccountsExcluded ==
  /\ [][\A w \in Workers : FleetCallBy(w) =>
          /\ \A realm \in Realms :
               /\ realm \in Elems(proc'[w].selected)
                    <=> /\ Known(realm)
                        /\ ~Revoked(realm)
                        /\ accounts[realm].refresh_token # 0
               /\ realm \notin
                    Elems(ActiveFrom(WithoutRefreshToken(realm),
                                     <<"r1", "r2">>))
          /\ proc'[w].results = <<>>
          /\ proc'[w].api = {}]_vars
  /\ [](\A w \in Workers :
          proc[w].entry = "all" =>
            /\ proc[w].pc \notin {"idle", "done"}
                 => proc[w].realm \in Elems(proc[w].selected)
            /\ \A i \in 1..Len(proc[w].results) :
                 proc[w].results[i].realm_id \in Elems(proc[w].selected))

\* A call of sync_all_accounts made while the only account was flagged has
\* ended: nothing was selected and nothing was recorded
C27_Witness ==
  \E w \in Workers :
    /\ proc[w].entry = "all"
    /\ proc[w].pc = "done"
    /\ \E realm \in Realms : Revoked(realm)
    /\ \A realm \in Realms : Known(realm) => Revoked(realm)
    /\ proc[w].selected = <<>>
    /\ proc[w].ret.results = <<>>
    /\ proc[w].api = {}
\* Worker w has an InvalidGrantError of the account's refresh exchange in
\* hand, in the except clause of _sync_object_type
ObservedInvalidGrant(w, realm) ==
  /\ proc[w].pc = "set_revoked"
  /\ proc[w].realm = realm
  /\ proc[w].exc = "InvalidGrantError"
  /\ proc[w].grant_failed = CurName(proc[w])
  /\ <<CurName(proc[w]), "refresh">> \in proc[w].api
  /\ idp[realm].valid # proc[w].client.refresh_token

\* C28: the revoked flag of an account goes from false to true only in a
\* step in which the sync engine handles an invalid-grant failure of that
\* account's refresh exchange; no other failure and no other step sets it.
C28_FlagSetOnlyOnInvalidGrant ==
  [][\A realm \in Realms :
       (~accounts[realm].is_token_expired
        /\ accounts'[realm].is_token_expired) =>
         /\ accounts[realm].exists
         /\ \E w \in Workers : ObservedInvalidGrant(w, realm)]_vars

\* The flag was set for an invalid grant met by the second object type, in
\* a call whose first object type had been synced
C28_Witness ==
  \E w \in Workers :
    /\ proc[w].pc = "done"
    /\ proc[w].grant_failed = "invoices"
    /\ proc[w].acct_results.customers.status = "success"
    /\ accounts[proc[w].realm].is_token_expired
\* The names of the object types of SYNC_CONFIG
TypeNames == {SYNC_CONFIG[i].name : i \in 1..Len(SYNC_CONFIG)}

\* C29: sync_account for an account id that is not in the table raises
\* AccountNotFoundError and changes nothing in the database; when
\* sync_account returns, its result has one outcome for each object type,
\* success or failed, and its success flag is true exactly when every
\* outcome is success.
C29_SyncAccountResult ==
  /\ [][\A w \in Workers :
          ( /\ proc[w].pc = "acct_start"
            /\ proc[w].entry = "one"
            /\ ~Known(proc[w].realm)
            /\ proc'[w].pc \notin {"acct_start", "idle"} ) =>
            /\ proc'[w].pc = "done"
            /\ proc'[w].ret = [raised |-> "AccountNotFoundError",
                               results |-> <<>>]
            /\ proc'[w].api = {}
            /\ UNCHANGED <<accounts, sync_states, records, idp>>]_vars
  /\ [](\A w \in Workers :
          ( /\ proc[w].pc = "done"
            /\ proc[w].entry = "one"
            /\ proc[w].ret.raised = "none" ) =>
            /\ Len(proc[w].ret.results) = 1
            /\ LET r == proc[w].ret.results[1] IN
               /\ r.realm_id = proc[w].realm
               /\ TypeNames \subseteq DOMAIN r
               /\ \A n \in TypeNames : r[n].status \in {"success", "failed"}
               /\ r.success <=> \A n \in TypeNames : r[n].status = "success")

\* sync_account has returned with customers synced and invoices failed: the
\* success flag is false
C29_Witness ==
  \E w \in Workers :
    /\ proc[w].pc = "done"
    /\ proc[w].entry = "one"
    /\ proc[w].ret.raised = "none"
    /\ proc[w].ret.results[1].customers.status = "success"
    /\ proc[w].ret.results[1].invoices.status = "failed"
    /\ ~proc[w].ret.results[1].success
\* The step of worker w attempts a refresh exchange for its object type
RefreshAttempted(w) ==
  /\ proc[w].pc = "ensure"
  /\ <<CurName(proc[w]), "refresh">> \notin proc[w].api
  /\ <<CurName(proc[w]), "refresh">> \in proc'[w].api

\* C30: whenever a refresh exchange is attempted for an object type's
\* cycle, mark_started has already run for that cycle: the checkpoint row of
\* the type is in_progress, its last-attempt instant is stamped and its
\* last error is cleared.
C30_RefreshAfterMarkStarted ==
  [][\A w \in Workers :
       RefreshAttempted(w) =>
         LET row == sync_states[proc[w].realm][CurType(proc[w])] IN
         /\ row.exists
         /\ row.status = "in_progress"
         /\ row.last_attempt_time # 0
         /\ row.error_message = "none"]_vars
\* The delays a call sleeps as the claim C31 gives them, for the attempts
\* i..n of a call (i counts from 1): 2^(i-1) base delays after a rate-limited
\* attempt, i base delays after a server or network error that is not the
\* last attempt allowed
RECURSIVE DelaysFrom(_, _, _)
DelaysFrom(outcomes, i, n) ==
  IF i > n THEN <<>>
  ELSE LET o == outcomes[i]
           d == IF o = "429" THEN <<retry_delay * 2 ^ (i - 1)>>
                ELSE IF o \in {"500", "503", "net"} /\ i < max_retries
                THEN <<retry_delay * i>>
                ELSE <<>>
       IN d \o DelaysFrom(outcomes, i + 1, n)

\* C31: in one HTTP call with base delay d, the delay slept after a
\* rate-limited attempt is d * 2^k, k = 0, 1, 2 being the number of attempts
\* made before it, and the delay slept after the k-th attempt, k = 1, 2,
\* when it failed with a server or network error is d * k; with a mix of
\* error kinds both use the one attempt counter of the call.
C31_BackoffDelays ==
  Returned("_request_with_retry") =>
    call.out.sleeps = DelaysFrom(call.args, 1, call.out.attempts)

\* A call met a server error, then a rate limit, then a network error:
\* it slept d * 1 and then d * 2^1
C31_Witness ==
  /\ Returned("_request_with_retry")
  /\ call.args = <<"500", "429", "net">>
  /\ call.out.sleeps = <<retry_delay, 2 * retry_delay>>
  /\ call.out.attempts = 3

\* C32: in one HTTP call every backoff sleep is followed by another attempt:
\* after the last attempt allowed has failed the error is surfaced without
\* a further sleep, whatever the kind of failure, so that a call sleeps at
\* most max_retries - 1 times.
C32_NoSleepAfterLastAttempt ==
  Returned("_request_with_retry") =>
    /\ Len(call.out.sleeps) <= max_retries - 1
    /\ Len(call.out.sleeps) < call.out.attempts
\* C33: over remote data that does not change, the batches of
\* get_all_generator put end to end are, in order and without gap or
\* repeat, the remote records in ascending update-time order: all of them
\* without a watermark, otherwise exactly those whose update-time is
\* strictly greater than the watermark; page k asks for the window that
\* starts at 1 + (k - 1) * page size.
C33_BatchesAreTheChangedRecords ==
  Returned("get_all_generator") =>
    LET a == call.args
        wanted == {i \in 1..Len(a.data) :
                     a.last_updated_time = NoneStr
                     \/ StrLess(a.last_updated_time, a.data[i].lut)}
        got == Concat(call.out.batches)
    IN /\ Len(got) = Cardinality(wanted)
       /\ \A i \in wanted :
            got[Cardinality({j \in wanted : j <= i})] = a.data[i]
       /\ \A k \in 1..Len(got) - 1 : StrLeq(got[k].lut, got[k + 1].lut)
       /\ \A k \in 1..Len(call.out.positions) :
            call.out.positions[k] = 1 + (k - 1) * a.page_size

\* Five remote records and a watermark at the first: the four newer ones
\* came as two full pages, and a third page was asked for at position 5
C33_Witness ==
  /\ Returned("get_all_generator")
  /\ call.args.data = RemoteOfSize(5)
  /\ call.args.last_updated_time = <<1>>
  /\ call.args.page_size = 2
  /\ Len(Concat(call.out.batches)) = 4
  /\ call.out.positions = <<1, 3, 5>>
\* C34: when two cycles of one (account, object type) overlap, the stored
\* watermark still never decreases: the cycle that ends later does not put
\* a smaller watermark over a greater one the other cycle wrote.
C34_WatermarkMonotonicUnderOverlap ==
  [][\A t \in ObjectType :
       LET before == sync_states[OverlapRealm][t].checkpoint
           after == sync_states'[OverlapRealm][t].checkpoint
       IN before # after => StrLess(before, after)]_vars

\* C35: when two runs of one account overlap and both refresh, the account
\* is flagged revoked only if the identity provider rejects the refresh
\* token that is stored: it is never flagged while the stored refresh token
\* is the one the provider accepts.
C35_RevokedOnlyIfStoredTokenRejected ==
  \A realm \in Realms :
    Revoked(realm) =>
      ~(idp[realm].valid # 0
        /\ idp[realm].valid = accounts[realm].refresh_token)
\* Worker w has returned from a sync_account call in which every object
\* type succeeded and during which the remote data did not change
SettledCall(w) ==
  /\ proc[w].pc = "done"
  /\ proc[w].entry = "one"
  /\ proc[w].ret.raised = "none"
  /\ proc[w].ret.results[1].success
  /\ proc[w].remote_seen = remote

\* The remote record e is stored for (realm, object_type) with its payload
Present(realm, object_type, e) ==
  \E r \in Stored(realm, object_type) :
    r.qbo_id = e.Id /\ r.raw_data = e.lut

\* C36: remote records may be updated while a cycle is between two page
\* fetches, and still none is missed for good: a successful cycle run after
\* the remote has stopped changing leaves every remote record in the local
\* store with its latest payload.
C36_NoRecordMissedForGood ==
  \A w \in Workers :
    SettledCall(w) =>
      \A t \in ObjectType, i \in 1..Len(remote) :
        Present(proc[w].realm, t, remote[i])

\* C37: after a successful cycle over unchanged remote data, every remote
\* record whose update-time is not greater than the stored watermark is in
\* the local store with its current payload, also a record created with
\* the very update-time of the watermark after an earlier successful cycle.
C37_RecordAtWatermarkIngested ==
  \A w \in Workers :
    SettledCall(w) =>
      \A t \in ObjectType, i \in 1..Len(remote) :
        StrLeq(remote[i].lut, sync_states[proc[w].realm][t].checkpoint)
          => Present(proc[w].realm, t, remote[i])

\* The rows of the table that belong to (realm, object_type), with their
\* numbers of copies
RowsOf(table, realm, object_type) ==
  [r \in Stored(realm, object_type) |-> CopiesIn(r, table)]

\* C38: a sync cycle for one (account, object type) writes only the
\* checkpoint row of that pair, the stored records of that account and
\* type, and the credential fields of that account: every step of the cycle
\* leaves the checkpoint rows and the records of the other object type and
\* of the other accounts, and the other accounts themselves, as they were.
C38_CycleWritesOnlyItsOwn ==
  [][\A w \in Workers :
       (InCall(proc[w]) /\ proc'[w] # proc[w]) =>
         LET realm == proc[w].realm
             object_type == CurType(proc[w])
         IN /\ \A r \in Realms, t \in ObjectType :
                 <<r, t>> # <<realm, object_type>> =>
                   /\ sync_states'[r][t] = sync_states[r][t]
                   /\ RowsOf(records, r, t) = RowsOf(records', r, t)
            /\ \A r \in Realms \ {realm} : accounts'[r] = accounts[r]]_vars

\* A call for one account has synced both object types while another
\* account holds synced rows and records with the same external ids
C38_Witness ==
  \E w \in Workers, other \in Realms :
    /\ SettledCall(w)
    /\ other # proc[w].realm
    /\ \A t \in ObjectType :
         /\ Stored(proc[w].realm, t) # {}
         /\ Stored(other, t) # {}
         /\ sync_states[other][t].status = "success"
\* The step of worker w ends one account of a sync_all_accounts call
\* with a record appended to the list of results
RecordAppended(w) ==
  /\ proc[w].entry = "all"
  /\ proc'[w].entry = "all"
  /\ Len(proc'[w].results) = Len(proc[w].results) + 1

\* C39: in the list of sync_all_accounts a record reports an object type
\* as skipped only if no sync of that type was attempted for the account
\* in this call; customers that synced before invoices met the invalid
\* grant are in particular not reported as skipped.
C39_SkippedOnlyIfNotAttempted ==
  [][\A w \in Workers :
       RecordAppended(w) =>
         LET rec == proc'[w].results[Len(proc'[w].results)] IN
         \A n \in TypeNames :
           rec[n].status = "skipped" => n \notin proc[w].attempted]_vars
\* The step is an authorization of the realm: its account row is written
\* and no sync process takes part
AuthorizeStep(realm) ==
  /\ accounts'[realm] # accounts[realm]
  /\ UNCHANGED proc

\* C40: the authorization that creates an account creates one checkpoint
\* row for every object type, pending and without watermark; the
\* authorization of an account that exists replaces the credential and
\* clears the revoked flag, creates no checkpoint row and leaves every
\* checkpoint row and every stored record as it was; checkpoint rows exist
\* only for accounts that exist, one for an (account, object type) at most.
C40_AuthorizeCreatesRowsOnce ==
  /\ [][\A realm \in Realms :
          AuthorizeStep(realm) =>
            /\ accounts'[realm].exists
            /\ ~accounts'[realm].is_token_expired
            /\ accounts'[realm].refresh_token # accounts[realm].refresh_token
            /\ accounts'[realm].refresh_token = idp'[realm].valid
            /\ records' = records
            /\ \A r \in Realms \ {realm} : sync_states'[r] = sync_states[r]
            /\ IF accounts[realm].exists
               THEN sync_states'[realm] = sync_states[realm]
               ELSE \A t \in ObjectType :
                      sync_states'[realm][t] = PendingSyncState]_vars
  /\ [](\A r \in Realms, t \in ObjectType :
          sync_states[r][t].exists => accounts[r].exists)

\* An account that was flagged after its customers had been synced is
\* authorized again; its rows and records are still there
C40_Witness ==
  \E w \in Workers :
    /\ proc[w].pc = "done"
    /\ proc[w].ret.raised = "RevokedRefreshTokenError"
    /\ ~accounts[proc[w].realm].is_token_expired
    /\ accounts[proc[w].realm].refresh_token = idp[proc[w].realm].valid
    /\ Stored(proc[w].realm, "Customer") # {}
    /\ sync_states[proc[w].realm]["Customer"].status = "success"
====

